---- MODULE Spec2Model ----
(***************************************************************************)
(* A model of nyattoh/prompt_auto_refactor: the prompt resolver            *)
(* (src/src/prompt/prompt_processor.py) and the transformation engine      *)
(* (src/src/refactor/refactoring_engine.py).                               *)
(*                                                                         *)
(* Text is a sequence of one-character strings, so that lower-casing,      *)
(* substring tests, regular-expression searches, int() and split/strip     *)
(* are computed character by character as Python computes them.            *)
(* An optional value (a dataclass field that may be None, a group that did *)
(* not take part in a match) is None == <<>> or Some(v) == <<v>>.          *)
(***************************************************************************)
EXTENDS Integers, Sequences, FiniteSets, TLC

\* ------------------------------------------------------------------------
\* Optional values
\* ------------------------------------------------------------------------
None == <<>>
Some(v) == <<v>>
Val(o) == o[1]

\* Python truthiness of an optional text / list (None, '' and [] are falsy).
TruthySeq(o) == o # None /\ Val(o) # <<>>
\* Python truthiness of an optional int (None and 0 are falsy).
TruthyInt(o) == o # None /\ Val(o) # 0

\* ------------------------------------------------------------------------
\* Characters
\* ------------------------------------------------------------------------
UpperChars ==
  <<"A","B","C","D","E","F","G","H","I","J","K","L","M",
    "N","O","P","Q","R","S","T","U","V","W","X","Y","Z">>
LowerChars ==
  <<"a","b","c","d","e","f","g","h","i","j","k","l","m",
    "n","o","p","q","r","s","t","u","v","w","x","y","z">>
DigitChars == <<"0","1","2","3","4","5","6","7","8","9">>

Range(f) == {f[i] : i \in DOMAIN f}
IsUpper(c) == c \in Range(UpperChars)
IsLower(c) == c \in Range(LowerChars)
IsDigit(c) == c \in Range(DigitChars)
IsSpace(c) == c \in {" ", "\n", "\t"}
IsWord(c) == IsUpper(c) \/ IsLower(c) \/ IsDigit(c) \/ c = "_"

\* str.lower(), one character
LowerChar(c) ==
  IF IsUpper(c) THEN LowerChars[CHOOSE i \in 1..26 : UpperChars[i] = c] ELSE c
UpperChar(c) ==
  IF IsLower(c) THEN UpperChars[CHOOSE i \in 1..26 : LowerChars[i] = c] ELSE c
\* str.lower()
Lower(s) == [i \in 1..Len(s) |-> LowerChar(s[i])]
\* str.title(): a cased character is upper-cased after an uncased one and
\* lower-cased after a cased one
IsCased(c) == IsUpper(c) \/ IsLower(c)
Title(s) ==
  [i \in 1..Len(s) |->
     IF i > 1 /\ IsCased(s[i-1]) THEN LowerChar(s[i]) ELSE UpperChar(s[i])]

\* `sub in s`
StartsAt(s, i, sub) ==
  /\ i + Len(sub) - 1 <= Len(s)
  /\ \A k \in 1..Len(sub) : s[i + k - 1] = sub[k]
Contains(s, sub) == \E i \in 1..(Len(s) + 1) : StartsAt(s, i, sub)

\* int(text) of a run of ASCII digits
DigitValue(c) == (CHOOSE i \in 1..10 : DigitChars[i] = c) - 1
RECURSIVE IntOf(_)
IntOf(ds) ==
  IF ds = <<>> THEN 0
  ELSE 10 * IntOf(SubSeq(ds, 1, Len(ds) - 1)) + DigitValue(ds[Len(ds)])
IsIntText(t) == t # <<>> /\ \A i \in 1..Len(t) : IsDigit(t[i])

\* str.strip()
RECURSIVE LStrip(_)
LStrip(s) == IF s # <<>> /\ IsSpace(Head(s)) THEN LStrip(Tail(s)) ELSE s
RECURSIVE RStrip(_)
RStrip(s) ==
  IF s # <<>> /\ IsSpace(s[Len(s)]) THEN RStrip(SubSeq(s, 1, Len(s) - 1)) ELSE s
Strip(s) == RStrip(LStrip(s))

\* str.split(','): the pieces between the commas, empty pieces kept
RECURSIVE SplitComma(_)
SplitComma(s) ==
  IF \A i \in 1..Len(s) : s[i] # ","
  THEN <<s>>
  ELSE LET k == CHOOSE i \in 1..Len(s) :
                  s[i] = "," /\ \A j \in 1..(i - 1) : s[j] # ","
       IN  <<SubSeq(s, 1, k - 1)>> \o SplitComma(SubSeq(s, k + 1, Len(s)))

\* ------------------------------------------------------------------------
\* The string literals of the source, as character sequences
\* ------------------------------------------------------------------------
Str ==
  [
    extract |-> <<"e","x","t","r","a","c","t">>,
    from |-> <<"f","r","o","m">>,
    line |-> <<"l","i","n","e">>,
    s |-> <<"s">>,
    to |-> <<"t","o">>,
    method |-> <<"m","e","t","h","o","d">>,
    function |-> <<"f","u","n","c","t","i","o","n">>,
    called |-> <<"c","a","l","l","e","d">>,
    validation |-> <<"v","a","l","i","d","a","t","i","o","n">>,
    logic |-> <<"l","o","g","i","c">>,
    calculation |-> <<"c","a","l","c","u","l","a","t","i","o","n">>,
    rename |-> <<"r","e","n","a","m","e">>,
    more |-> <<"m","o","r","e">>,
    descriptive |-> <<"d","e","s","c","r","i","p","t","i","v","e">>,
    variable |-> <<"v","a","r","i","a","b","l","e">>,
    name |-> <<"n","a","m","e">>,
    unclear |-> <<"u","n","c","l","e","a","r">>,
    change |-> <<"c","h","a","n","g","e">>,
    inline |-> <<"i","n","l","i","n","e">>,
    move |-> <<"m","o","v","e">>,
    class |-> <<"c","l","a","s","s">>,
    remove |-> <<"r","e","m","o","v","e">>,
    unused |-> <<"u","n","u","s","e","d">>,
    make |-> <<"m","a","k","e">>,
    better |-> <<"b","e","t","t","e","r">>,
    improve |-> <<"i","m","p","r","o","v","e">>,
    optimize |-> <<"o","p","t","i","m","i","z","e">>,
    convert |-> <<"c","o","n","v","e","r","t">>,
    translate |-> <<"t","r","a","n","s","l","a","t","e">>,
    separate |-> <<"s","e","p","a","r","a","t","e">>,
    split |-> <<"s","p","l","i","t">>,
    substitute |-> <<"s","u","b","s","t","i","t","u","t","e">>,
    expand |-> <<"e","x","p","a","n","d">>,
    relocate |-> <<"r","e","l","o","c","a","t","e">>,
    different_language |-> <<"d","i","f","f","e","r","e","n","t"," ","l","a","n","g","u","a","g","e">>,
    factor_out |-> <<"f","a","c","t","o","r"," ","o","u","t">>,
    pull_out |-> <<"p","u","l","l"," ","o","u","t">>,
    rename_function |-> <<"r","e","n","a","m","e"," ","f","u","n","c","t","i","o","n">>,
    change_function_name |-> <<"c","h","a","n","g","e"," ","f","u","n","c","t","i","o","n"," ","n","a","m","e">>,
    better_name |-> <<"b","e","t","t","e","r"," ","n","a","m","e">>,
    rename_variable |-> <<"r","e","n","a","m","e"," ","v","a","r","i","a","b","l","e">>,
    change_variable |-> <<"c","h","a","n","g","e"," ","v","a","r","i","a","b","l","e">>,
    inline_variable |-> <<"i","n","l","i","n","e"," ","v","a","r","i","a","b","l","e">>,
    inline_function |-> <<"i","n","l","i","n","e"," ","f","u","n","c","t","i","o","n">>,
    move_method |-> <<"m","o","v","e"," ","m","e","t","h","o","d">>,
    remove_unused |-> <<"r","e","m","o","v","e"," ","u","n","u","s","e","d">>,
    dead_code |-> <<"d","e","a","d"," ","c","o","d","e">>,
    clean_up |-> <<"c","l","e","a","n"," ","u","p">>,
    colon |-> <<":">>,
    comma |-> <<",">>,
    extracted_method |-> <<"e","x","t","r","a","c","t","e","d","_","m","e","t","h","o","d">>,
    item_price |-> <<"i","t","e","m","_","p","r","i","c","e">>,
    discounted_price |-> <<"d","i","s","c","o","u","n","t","e","d","_","p","r","i","c","e">>,
    item |-> <<"i","t","e","m">>,
    price |-> <<"p","r","i","c","e">>,
    None |-> <<"N","o","n","e">>,
    validate |-> <<"v","a","l","i","d","a","t","e">>,
    calculate |-> <<"c","a","l","c","u","l","a","t","e">>
  ]

\* ------------------------------------------------------------------------
\* Regular expressions (Python's re: backtracking, greedy, leftmost)
\*
\* A pattern is a sequence of items; M returns the first match in
\* backtracking order of the items from position i, or Fail.
\* caps[n] = <<start, end>> (end exclusive) of group n, <<0, 0>> when the
\* group did not take part.
\* ------------------------------------------------------------------------
Lit(s) == [t |-> "lit", s |-> s]
\* max < 0: unbounded
Rep(c, min, max) == [t |-> "rep", c |-> c, min |-> min, max |-> max]
Star(c) == Rep(c, 0, -1)
Plus(c) == Rep(c, 1, -1)
Maybe(c) == Rep(c, 0, 1)
Opt(p) == [t |-> "opt", p |-> p]
Alt(ps) == [t |-> "alt", ps |-> ps]
Grp(n, p) == <<[t |-> "open", n |-> n]>> \o p \o <<[t |-> "close", n |-> n]>>

InClass(c, ch) ==
  CASE c = "dot"   -> ch # "\n"
    [] c = "w"     -> IsWord(ch)
    [] c = "d"     -> IsDigit(ch)
    [] c = "s"     -> IsSpace(ch)
    [] c = "dashs" -> ch = "-" \/ IsSpace(ch)
    [] c = "quote" -> ch \in {"\"", "'"}

\* the length of the run of characters of class c from position i, at most
\* `left` of them (left < 0: no limit)
RECURSIVE RunLen(_, _, _, _)
RunLen(s, i, c, left) ==
  IF left # 0 /\ i <= Len(s) /\ InClass(c, s[i])
  THEN 1 + RunLen(s, i + 1, c, IF left < 0 THEN left ELSE left - 1)
  ELSE 0

NoCaps == [n \in 1..3 |-> <<0, 0>>]
Fail == [ok |-> FALSE]

RECURSIVE M(_, _, _, _)
RECURSIVE TryRep(_, _, _, _, _, _)
RECURSIVE TryAlt(_, _, _, _, _, _)
M(items, s, i, caps) ==
  IF items = <<>> THEN [ok |-> TRUE, end |-> i, caps |-> caps]
  ELSE
    LET it == Head(items)
        rest == Tail(items)
    IN  CASE it.t = "lit" ->
               IF StartsAt(s, i, it.s) THEN M(rest, s, i + Len(it.s), caps) ELSE Fail
          [] it.t = "rep" ->
               LET k == RunLen(s, i, it.c, it.max)
               IN  IF k < it.min THEN Fail ELSE TryRep(rest, s, i, k, it.min, caps)
          [] it.t = "opt" ->
               LET r == M(it.p \o rest, s, i, caps)
               IN  IF r.ok THEN r ELSE M(rest, s, i, caps)
          [] it.t = "alt" -> TryAlt(it.ps, 1, rest, s, i, caps)
          [] it.t = "open" -> M(rest, s, i, [caps EXCEPT ![it.n] = <<i, 0>>])
          [] it.t = "close" -> M(rest, s, i, [caps EXCEPT ![it.n] = <<caps[it.n][1], i>>])
\* greedy repetition: the longest run first, then shorter ones
TryRep(rest, s, i, k, min, caps) ==
  LET r == M(rest, s, i + k, caps)
  IN  IF r.ok THEN r
      ELSE IF k > min THEN TryRep(rest, s, i, k - 1, min, caps) ELSE Fail
\* alternation: the alternatives in the order written
TryAlt(ps, a, rest, s, i, caps) ==
  IF a > Len(ps) THEN Fail
  ELSE LET r == M(ps[a] \o rest, s, i, caps)
       IN  IF r.ok THEN r ELSE TryAlt(ps, a + 1, rest, s, i, caps)

\* re.search(pattern, s): the match at the leftmost position that has one
RECURSIVE SearchFrom(_, _, _)
SearchFrom(p, s, i) ==
  IF i > Len(s) + 1 THEN Fail
  ELSE LET r == M(p, s, i, NoCaps)
       IN  IF r.ok THEN r ELSE SearchFrom(p, s, i + 1)
Search(p, s) == SearchFrom(p, s, 1)

\* match.groups()[n-1] read in text s: None for a group that took no part
Group(m, s, n) ==
  IF m.caps[n] = <<0, 0>> THEN None
  ELSE Some(SubSeq(s, m.caps[n][1], m.caps[n][2] - 1))

\* ------------------------------------------------------------------------
\* PromptProcessor.__init__: the pattern catalog and the keyword table
\* ------------------------------------------------------------------------
Pat(items, n) == [re |-> items, groups |-> n]
Quote == Maybe("quote")
MethodOrFunction == Alt(<< <<Lit(Str.method)>>, <<Lit(Str.function)>> >>)

\* r'extract.*(?:from\s+)?lines?\s+(\d+)[-\s]*(?:to\s+)?(\d+).*(?:method|function)\s+(?:called\s+)?["\']?(\w+)["\']?'
PExtractLinesName ==
  Pat(<<Lit(Str.extract), Star("dot"), Opt(<<Lit(Str.from), Plus("s")>>),
        Lit(Str.line), Opt(<<Lit(Str.s)>>), Plus("s")>>
      \o Grp(1, <<Plus("d")>>)
      \o <<Star("dashs"), Opt(<<Lit(Str.to), Plus("s")>>)>>
      \o Grp(2, <<Plus("d")>>)
      \o <<Star("dot"), MethodOrFunction, Plus("s"),
           Opt(<<Lit(Str.called), Plus("s")>>), Quote>>
      \o Grp(3, <<Plus("w")>>)
      \o <<Quote>>, 3)
\* r'extract.*(?:method|function)\s+(?:called\s+)?["\']?(\w+)["\']?.*(?:from\s+)?lines?\s+(\d+)[-\s]*(?:to\s+)?(\d+)'
PExtractNameLines ==
  Pat(<<Lit(Str.extract), Star("dot"), MethodOrFunction, Plus("s"),
        Opt(<<Lit(Str.called), Plus("s")>>), Quote>>
      \o Grp(1, <<Plus("w")>>)
      \o <<Quote, Star("dot"), Opt(<<Lit(Str.from), Plus("s")>>),
           Lit(Str.line), Opt(<<Lit(Str.s)>>), Plus("s")>>
      \o Grp(2, <<Plus("d")>>)
      \o <<Star("dashs"), Opt(<<Lit(Str.to), Plus("s")>>)>>
      \o Grp(3, <<Plus("d")>>), 3)
\* r'extract.*validation\s+logic'
PExtractValidation ==
  Pat(<<Lit(Str.extract), Star("dot"), Lit(Str.validation), Plus("s"), Lit(Str.logic)>>, 0)
\* r'extract.*calculation\s+logic'
PExtractCalculation ==
  Pat(<<Lit(Str.extract), Star("dot"), Lit(Str.calculation), Plus("s"), Lit(Str.logic)>>, 0)
\* r'rename\s+function\s+["\']?(\w+)["\']?\s+to\s+["\']?(\w+)["\']?'
PRenameFunction ==
  Pat(<<Lit(Str.rename), Plus("s"), Lit(Str.function), Plus("s"), Quote>>
      \o Grp(1, <<Plus("w")>>)
      \o <<Quote, Plus("s"), Lit(Str.to), Plus("s"), Quote>>
      \o Grp(2, <<Plus("w")>>)
      \o <<Quote>>, 2)
\* r'rename.*function.*["\']?(\w+)["\']?.*["\']?(\w+)["\']?'
PRenameFunctionLoose ==
  Pat(<<Lit(Str.rename), Star("dot"), Lit(Str.function), Star("dot"), Quote>>
      \o Grp(1, <<Plus("w")>>)
      \o <<Quote, Star("dot"), Quote>>
      \o Grp(2, <<Plus("w")>>)
      \o <<Quote>>, 2)
\* r'rename.*function.*more\s+descriptive'
PRenameFunctionDescriptive ==
  Pat(<<Lit(Str.rename), Star("dot"), Lit(Str.function), Star("dot"),
        Lit(Str.more), Plus("s"), Lit(Str.descriptive)>>, 0)
\* r'rename\s+variable\s+["\']?(\w+)["\']?\s+to\s+["\']?(\w+)["\']?'
PRenameVariable ==
  Pat(<<Lit(Str.rename), Plus("s"), Lit(Str.variable), Plus("s"), Quote>>
      \o Grp(1, <<Plus("w")>>)
      \o <<Quote, Plus("s"), Lit(Str.to), Plus("s"), Quote>>
      \o Grp(2, <<Plus("w")>>)
      \o <<Quote>>, 2)
\* r'variable\s+name.*unclear.*change'
PVariableUnclear ==
  Pat(<<Lit(Str.variable), Plus("s"), Lit(Str.name), Star("dot"),
        Lit(Str.unclear), Star("dot"), Lit(Str.change)>>, 0)
\* r'rename.*variable'
PRenameVariableLoose ==
  Pat(<<Lit(Str.rename), Star("dot"), Lit(Str.variable)>>, 0)
\* r'inline.*variable\s+["\']?(\w+)["\']?'
PInlineVariable ==
  Pat(<<Lit(Str.inline), Star("dot"), Lit(Str.variable), Plus("s"), Quote>>
      \o Grp(1, <<Plus("w")>>)
      \o <<Quote>>, 1)
\* r'inline.*function\s+["\']?(\w+)["\']?'
PInlineFunction ==
  Pat(<<Lit(Str.inline), Star("dot"), Lit(Str.function), Plus("s"), Quote>>
      \o Grp(1, <<Plus("w")>>)
      \o <<Quote>>, 1)
\* r'move\s+method\s+["\']?(\w+)["\']?\s+from\s+(\w+)\s+(?:class\s+)?to\s+(\w+)\s+(?:class)?'
PMoveMethod ==
  Pat(<<Lit(Str.move), Plus("s"), Lit(Str.method), Plus("s"), Quote>>
      \o Grp(1, <<Plus("w")>>)
      \o <<Quote, Plus("s"), Lit(Str.from), Plus("s")>>
      \o Grp(2, <<Plus("w")>>)
      \o <<Plus("s"), Opt(<<Lit(Str.class), Plus("s")>>), Lit(Str.to), Plus("s")>>
      \o Grp(3, <<Plus("w")>>)
      \o <<Plus("s"), Opt(<<Lit(Str.class)>>)>>, 3)
\* r'remove\s+unused\s+(?:functions?|methods?):\s*(.*)'
PRemoveUnusedList ==
  Pat(<<Lit(Str.remove), Plus("s"), Lit(Str.unused), Plus("s"),
        Alt(<< <<Lit(Str.function), Opt(<<Lit(Str.s)>>)>>,
               <<Lit(Str.method), Opt(<<Lit(Str.s)>>)>> >>),
        Lit(Str.colon), Star("s")>>
      \o Grp(1, <<Star("dot")>>), 1)
\* r'remove.*unused\s+method'
PRemoveUnusedMethod ==
  Pat(<<Lit(Str.remove), Star("dot"), Lit(Str.unused), Plus("s"), Lit(Str.method)>>, 0)

\* self.operation_patterns, in declaration order (a dict keeps insertion order)
operation_patterns ==
  <<
    [kind |-> "extract_method",
     patterns |-> <<PExtractLinesName, PExtractNameLines, PExtractValidation, PExtractCalculation>>],
    [kind |-> "rename_function",
     patterns |-> <<PRenameFunction, PRenameFunctionLoose, PRenameFunctionDescriptive>>],
    [kind |-> "rename_variable",
     patterns |-> <<PRenameVariable, PVariableUnclear, PRenameVariableLoose>>],
    [kind |-> "inline_variable", patterns |-> <<PInlineVariable>>],
    [kind |-> "inline_function", patterns |-> <<PInlineFunction>>],
    [kind |-> "move_method", patterns |-> <<PMoveMethod>>],
    [kind |-> "remove_dead_code", patterns |-> <<PRemoveUnusedList, PRemoveUnusedMethod>>]
  >>

\* self.intent_keywords, in declaration order
intent_keywords ==
  <<
    [kind |-> "extract_method",
     keywords |-> <<Str.extract, Str.separate, Str.split, Str.factor_out, Str.pull_out>>],
    [kind |-> "rename_function",
     keywords |-> <<Str.rename_function, Str.change_function_name, Str.better_name>>],
    [kind |-> "rename_variable",
     keywords |-> <<Str.rename_variable, Str.change_variable, Str.unclear, Str.descriptive>>],
    [kind |-> "inline_variable", keywords |-> <<Str.inline_variable, Str.substitute>>],
    [kind |-> "inline_function", keywords |-> <<Str.inline_function, Str.expand>>],
    [kind |-> "move_method", keywords |-> <<Str.move_method, Str.relocate>>],
    [kind |-> "remove_dead_code", keywords |-> <<Str.remove_unused, Str.dead_code, Str.clean_up>>]
  >>

\* ------------------------------------------------------------------------
\* RefactoringRequest and PromptProcessor.parse_prompt
\* ------------------------------------------------------------------------
\* RefactoringRequest(operation_type=kind): every other field None
RefactoringRequest(kind) ==
  [operation_type |-> kind, method_name |-> None, start_line |-> None,
   end_line |-> None, old_name |-> None, new_name |-> None,
   variable_name |-> None, function_name |-> None, source_class |-> None,
   target_class |-> None, dead_functions |-> None]

Returned(r) == [request |-> Some(r), raised |-> None]
Raise(type, msg) == [request |-> None, raised |-> Some([type |-> type, msg |-> msg])]

\* int(text): digits, single underscores allowed between digits
IsIntLiteral(t) ==
  /\ t # <<>>
  /\ \A i \in 1..Len(t) : IsDigit(t[i]) \/ t[i] = "_"
  /\ IsDigit(t[1]) /\ IsDigit(t[Len(t)])
  /\ \A i \in 1..(Len(t) - 1) : ~(t[i] = "_" /\ t[i + 1] = "_")
RECURSIVE DropUnderscores(_)
DropUnderscores(t) ==
  IF t = <<>> THEN <<>>
  ELSE (IF Head(t) = "_" THEN <<>> ELSE <<Head(t)>>) \o DropUnderscores(Tail(t))
int(t) == IntOf(DropUnderscores(t))

\* `int(g) if g else None` for a group g; ok is FALSE when int() raises
IntIfAny(g) ==
  IF ~TruthySeq(g) THEN [ok |-> TRUE, v |-> None]
  ELSE IF IsIntLiteral(Val(g)) THEN [ok |-> TRUE, v |-> Some(int(Val(g)))]
  ELSE [ok |-> FALSE, v |-> None]

\* r'from\s+(\w+)' and r'to\s+(\w+)'
PFromWord == Pat(<<Lit(Str.from), Plus("s")>> \o Grp(1, <<Plus("w")>>), 1)
PToWord == Pat(<<Lit(Str.to), Plus("s")>> \o Grp(1, <<Plus("w")>>), 1)
\* re.search(p, s, re.IGNORECASE) for a lower-case pattern: the search of
\* the lower-cased text; the groups are read in s itself
SearchIgnoreCase(p, s) == Search(p.re, Lower(s))

CreateExtractMethod(operation_type, match, prompt_lower) ==
  LET n == match.groups
      g(k) == Group(match.m, prompt_lower, k)
  IN  IF n >= 3 /\ TruthySeq(g(3))
      THEN LET a == IntIfAny(g(1))
               b == IntIfAny(g(2))
           IN  IF ~a.ok \/ ~b.ok
               THEN Raise("ValueError", "invalid literal for int()")
               ELSE Returned([RefactoringRequest(operation_type) EXCEPT
                                !.method_name = g(3), !.start_line = a.v, !.end_line = b.v])
      ELSE IF n >= 1 /\ TruthySeq(g(1))
      THEN LET a == IF n > 1 THEN IntIfAny(g(2)) ELSE [ok |-> TRUE, v |-> None]
               b == IF n > 2 THEN IntIfAny(g(3)) ELSE [ok |-> TRUE, v |-> None]
           IN  IF ~a.ok \/ ~b.ok
               THEN Raise("ValueError", "invalid literal for int()")
               ELSE Returned([RefactoringRequest(operation_type) EXCEPT
                                !.method_name = g(1), !.start_line = a.v, !.end_line = b.v])
      ELSE LET method_name ==
                 IF Contains(prompt_lower, Str.validation) THEN Str.validate
                 ELSE IF Contains(prompt_lower, Str.calculation) THEN Str.calculate
                 ELSE Str.extracted_method
           IN  Returned([RefactoringRequest(operation_type) EXCEPT
                           !.method_name = Some(method_name)])

CreateRename(operation_type, match, prompt_lower) ==
  IF match.groups >= 2
  THEN Returned([RefactoringRequest(operation_type) EXCEPT
                   !.old_name = Group(match.m, prompt_lower, 1),
                   !.new_name = Group(match.m, prompt_lower, 2)])
  ELSE Returned(RefactoringRequest(operation_type))

CreateMoveMethod(operation_type, match, prompt_lower, original_prompt) ==
  IF match.groups >= 3
  THEN LET source_match == SearchIgnoreCase(PFromWord, original_prompt)
           target_match == SearchIgnoreCase(PToWord, original_prompt)
           source_class ==
             IF source_match.ok THEN Group(source_match, original_prompt, 1)
             ELSE Some(Title(Val(Group(match.m, prompt_lower, 2))))
           target_class ==
             IF target_match.ok THEN Group(target_match, original_prompt, 1)
             ELSE Some(Title(Val(Group(match.m, prompt_lower, 3))))
       IN  Returned([RefactoringRequest(operation_type) EXCEPT
                       !.method_name = Group(match.m, prompt_lower, 1),
                       !.source_class = source_class,
                       !.target_class = target_class])
  ELSE Returned(RefactoringRequest(operation_type))

CreateRemoveDeadCode(operation_type, match, prompt_lower) ==
  LET g == IF match.groups >= 1 THEN Group(match.m, prompt_lower, 1) ELSE None
  IN  IF TruthySeq(g)
      THEN LET parts == SplitComma(Val(g))
               functions == [i \in 1..Len(parts) |-> Strip(parts[i])]
           IN  Returned([RefactoringRequest(operation_type) EXCEPT
                           !.dead_functions = Some(functions)])
      ELSE Returned(RefactoringRequest(operation_type))

\* PromptProcessor._create_request_from_match; match = [m, groups]: the match
\* object and the number of groups of its pattern (len(match.groups()))
create_request_from_match(operation_type, match, prompt_lower, original_prompt) ==
  CASE operation_type = "extract_method" ->
         CreateExtractMethod(operation_type, match, prompt_lower)
    [] operation_type \in {"rename_function", "rename_variable"} ->
         CreateRename(operation_type, match, prompt_lower)
    [] operation_type = "inline_variable" ->
         Returned([RefactoringRequest(operation_type) EXCEPT
                     !.variable_name =
                        IF match.groups >= 1 THEN Group(match.m, prompt_lower, 1) ELSE None])
    [] operation_type = "inline_function" ->
         Returned([RefactoringRequest(operation_type) EXCEPT
                     !.function_name =
                        IF match.groups >= 1 THEN Group(match.m, prompt_lower, 1) ELSE None])
    [] operation_type = "move_method" ->
         CreateMoveMethod(operation_type, match, prompt_lower, original_prompt)
    [] operation_type = "remove_dead_code" ->
         CreateRemoveDeadCode(operation_type, match, prompt_lower)
    [] OTHER -> Returned(RefactoringRequest(operation_type))

\* PromptProcessor.extract_intent: the first kind, in table order, one of
\* whose keywords is in the lower-cased prompt; None when there is none
RECURSIVE IntentFrom(_, _)
IntentFrom(prompt_lower, k) ==
  IF k > Len(intent_keywords) THEN None
  ELSE IF \E j \in 1..Len(intent_keywords[k].keywords) :
             Contains(prompt_lower, intent_keywords[k].keywords[j])
       THEN Some(intent_keywords[k].kind)
       ELSE IntentFrom(prompt_lower, k + 1)
\* an extract_intent that does not lower-case the prompt
extract_intent_CaseSensitive(prompt) == IntentFrom(prompt, 1)
extract_intent(prompt) == IntentFrom(Lower(prompt), 1)

\* the two guards of parse_prompt
GenericPhrases == <<Str.make, Str.better, Str.improve, Str.optimize>>
ConcreteVerbs == <<Str.extract, Str.rename, Str.inline, Str.move, Str.remove>>
ConversionPhrases == <<Str.convert, Str.translate, Str.different_language>>
AnyIn(words, text) == \E i \in 1..Len(words) : Contains(text, words[i])
IsAmbiguous(prompt_lower) ==
  AnyIn(GenericPhrases, prompt_lower) /\ ~AnyIn(ConcreteVerbs, prompt_lower)
\* a guard that forgets the phrase 'translate'
IsUnsupported_NoTranslate(prompt_lower) ==
  AnyIn(<<Str.convert, Str.different_language>>, prompt_lower)
IsUnsupported(prompt_lower) == AnyIn(ConversionPhrases, prompt_lower)

\* the loop over operation_patterns.items(): the first pattern, kind by kind
\* and pattern by pattern, that re.search finds in the text;
\* [found, k, j, m]: kind index, pattern index and match
RECURSIVE ScanFrom(_, _, _)
ScanFrom(prompt_lower, k, j) ==
  IF k > Len(operation_patterns) THEN [found |-> FALSE, k |-> 0, j |-> 0]
  ELSE IF j > Len(operation_patterns[k].patterns) THEN ScanFrom(prompt_lower, k + 1, 1)
  ELSE LET m == Search(operation_patterns[k].patterns[j].re, prompt_lower)
       IN  IF m.ok THEN [found |-> TRUE, k |-> k, j |-> j, m |-> m]
           ELSE ScanFrom(prompt_lower, k, j + 1)
\* a scan that tries the kinds from the last declared to the first
RECURSIVE ScanDownFrom(_, _, _)
ScanDownFrom(prompt_lower, k, j) ==
  IF k < 1 THEN [found |-> FALSE, k |-> 0, j |-> 0]
  ELSE IF j > Len(operation_patterns[k].patterns) THEN ScanDownFrom(prompt_lower, k - 1, 1)
  ELSE LET m == Search(operation_patterns[k].patterns[j].re, prompt_lower)
       IN  IF m.ok THEN [found |-> TRUE, k |-> k, j |-> j, m |-> m]
           ELSE ScanDownFrom(prompt_lower, k, j + 1)
PatternScan_LastKindFirst(prompt_lower) ==
  ScanDownFrom(prompt_lower, Len(operation_patterns), 1)
PatternScan(prompt_lower) == ScanFrom(prompt_lower, 1, 1)

\* [request, raised] with the catalog position `used`
Out(r, used) == [request |-> r.request, raised |-> r.raised, used |-> used]

\* parse_prompt after its guards: the pattern scan, then the fallback to
\* extract_intent, then the error
ResolveByPatterns(prompt) ==
  LET prompt_lower == Lower(prompt)
      scan == PatternScan(prompt_lower)
  IN  IF scan.found
      THEN Out(create_request_from_match(
                 operation_patterns[scan.k].kind,
                 [m |-> scan.m,
                  groups |-> operation_patterns[scan.k].patterns[scan.j].groups],
                 prompt_lower, prompt),
               <<scan.k, scan.j>>)
      ELSE LET intent == extract_intent(prompt)
           IN  IF intent # None
               THEN Out(Returned(RefactoringRequest(Val(intent))), <<0, 0>>)
               ELSE Out(Raise("ValueError", "Could not parse the refactoring request"),
                        <<0, 0>>)

\* a parse_prompt that tests for a conversion phrase before it tests for
\* an ambiguous prompt
parse_prompt_UnsupportedFirst(prompt) ==
  IF IsUnsupported(Lower(prompt))
  THEN Out(Raise("NotImplementedError", "Language conversion is not supported"), <<0, 0>>)
  ELSE IF IsAmbiguous(Lower(prompt))
  THEN Out(Raise("ValueError", "Ambiguous prompt"), <<0, 0>>)
  ELSE ResolveByPatterns(prompt)

\* PromptProcessor.parse_prompt: [request, raised, used]; used = <<k, j>> is
\* the catalog position of the pattern the request was built from, <<0, 0>>
\* when no pattern was used
parse_prompt(prompt) ==
  IF IsAmbiguous(Lower(prompt))
  THEN Out(Raise("ValueError", "Ambiguous prompt"), <<0, 0>>)
  ELSE IF IsUnsupported(Lower(prompt))
  THEN Out(Raise("NotImplementedError", "Language conversion is not supported"), <<0, 0>>)
  ELSE ResolveByPatterns(prompt)

\* ------------------------------------------------------------------------
\* RefactoringOperation and PromptProcessor.convert_to_operation
\* ------------------------------------------------------------------------
\* RefactoringOperation(type=type): every other field None
RefactoringOperation(type) ==
  [type |-> type, target |-> None, start_line |-> None, end_line |-> None,
   new_method_name |-> None, old_name |-> None, new_name |-> None,
   variable_name |-> None, function_name |-> None, method_name |-> None,
   source_class |-> None, target_class |-> None, dead_functions |-> None]

\* PromptProcessor.convert_to_operation: a field is copied when it is truthy
convert_to_operation(request) ==
  [RefactoringOperation(request.operation_type) EXCEPT
     !.new_method_name = IF TruthySeq(request.method_name) THEN request.method_name ELSE None,
     !.start_line = IF TruthyInt(request.start_line) THEN request.start_line ELSE None,
     !.end_line = IF TruthyInt(request.end_line) THEN request.end_line ELSE None,
     !.old_name = IF TruthySeq(request.old_name) THEN request.old_name ELSE None,
     !.new_name = IF TruthySeq(request.new_name) THEN request.new_name ELSE None,
     !.variable_name = IF TruthySeq(request.variable_name) THEN request.variable_name ELSE None,
     !.function_name = IF TruthySeq(request.function_name) THEN request.function_name ELSE None,
     !.source_class = IF TruthySeq(request.source_class) THEN request.source_class ELSE None,
     !.target_class = IF TruthySeq(request.target_class) THEN request.target_class ELSE None,
     !.dead_functions = IF TruthySeq(request.dead_functions) THEN request.dead_functions ELSE None]

\* ------------------------------------------------------------------------
\* Source text and syntax trees
\*
\* A source text is the sequence of its lines (code.split('\n')); a line is
\* its indentation and its statement, or the header of a def or a class.
\* A syntax tree is a sequence of statements, a def and a class holding
\* their body.  Expressions are kept as trees in both.
\* ------------------------------------------------------------------------
Name(id) == [e |-> "Name", id |-> id]
Num(n) == [e |-> "Num", n |-> n]
StrConst(s) == [e |-> "Str", s |-> s]
BinOp(left, op, right) == [e |-> "BinOp", left |-> left, op |-> op, right |-> right]
Call(func, args) == [e |-> "Call", func |-> func, args |-> args]
Attribute(value, attr) == [e |-> "Attribute", value |-> value, attr |-> attr]
\* a formal parameter (ast.arg) with its optional annotation
Arg(name, annotation) == [arg |-> name, annotation |-> annotation]

Assign(targets, value) == [t |-> "Assign", targets |-> targets, value |-> value]
Return(value) == [t |-> "Return", value |-> value]
Expr(value) == [t |-> "Expr", value |-> value]
Pass == [t |-> "Pass"]
\* headers (text) and compound statements (tree)
DefLine(name, args, defaults) ==
  [t |-> "def", name |-> name, args |-> args, defaults |-> defaults, returns |-> None]
ClassLine(name) == [t |-> "class", name |-> name]
FunctionDef(name, args, defaults, body) ==
  [t |-> "FunctionDef", name |-> name, args |-> args, defaults |-> defaults,
   returns |-> None, body |-> body]
\* a def with the annotation of what it returns: def f(...) -> returns:
Returning(def, returns) == [def EXCEPT !.returns = returns]
ClassDef(name, body) == [t |-> "ClassDef", name |-> name, body |-> body]
\* a line of text that is no statement of the language
Junk == [t |-> "Junk"]
BlankStmt == [t |-> "Blank"]

Line(indent, s) == [indent |-> indent, s |-> s]
Blank == Line(0, BlankStmt)
IsBlank(l) == l.s.t = "Blank"
IsHeader(l) == l.s.t \in {"def", "class"}

\* keyword.kwlist
Keywords ==
  {
    <<"F","a","l","s","e">>, <<"N","o","n","e">>, <<"T","r","u","e">>,
    <<"a","n","d">>, <<"a","s">>, <<"a","s","s","e","r","t">>,
    <<"a","s","y","n","c">>, <<"a","w","a","i","t">>, <<"b","r","e","a","k">>,
    <<"c","l","a","s","s">>, <<"c","o","n","t","i","n","u","e">>,
    <<"d","e","f">>, <<"d","e","l">>, <<"e","l","i","f">>,
    <<"e","l","s","e">>, <<"e","x","c","e","p","t">>,
    <<"f","i","n","a","l","l","y">>, <<"f","o","r">>, <<"f","r","o","m">>,
    <<"g","l","o","b","a","l">>, <<"i","f">>, <<"i","m","p","o","r","t">>,
    <<"i","n">>, <<"i","s">>, <<"l","a","m","b","d","a">>,
    <<"n","o","n","l","o","c","a","l">>, <<"n","o","t">>, <<"o","r">>,
    <<"p","a","s","s">>, <<"r","a","i","s","e">>, <<"r","e","t","u","r","n">>,
    <<"t","r","y">>, <<"w","h","i","l","e">>, <<"w","i","t","h">>,
    <<"y","i","e","l","d">>
  }
\* str.isidentifier() and not a keyword
IsIdentifier(s) ==
  /\ s # <<>>
  /\ \A i \in 1..Len(s) : IsWord(s[i])
  /\ ~IsDigit(s[1])
  /\ s \notin Keywords

\* keywords that are expressions
ConstantWords == {<<"N","o","n","e">>, <<"T","r","u","e">>, <<"F","a","l","s","e">>}
RECURSIVE ExprOk(_)
ExprOk(x) ==
  CASE x.e = "Name" -> IsIdentifier(x.id) \/ x.id \in ConstantWords
    [] x.e = "Num" -> TRUE
    [] x.e = "Str" -> TRUE
    [] x.e = "BinOp" -> ExprOk(x.left) /\ ExprOk(x.right)
    [] x.e = "Call" -> ExprOk(x.func) /\ \A i \in 1..Len(x.args) : ExprOk(x.args[i])
    [] x.e = "Attribute" -> ExprOk(x.value) /\ IsIdentifier(x.attr)
\* an assignment target: a name or an attribute
TargetOk(x) ==
  \/ x.e = "Name" /\ IsIdentifier(x.id)
  \/ x.e = "Attribute" /\ ExprOk(x)
\* the statement of one line is well formed
LineOk(s) ==
  CASE s.t = "Junk" -> FALSE
    [] s.t = "def" ->
         /\ IsIdentifier(s.name)
         /\ \A i \in 1..Len(s.args) :
              /\ IsIdentifier(s.args[i].arg)
              /\ s.args[i].annotation # None => ExprOk(Val(s.args[i].annotation))
         /\ Len(s.defaults) <= Len(s.args)
         /\ \A i \in 1..Len(s.defaults) : ExprOk(s.defaults[i])
         /\ s.returns # None => ExprOk(Val(s.returns))
    [] s.t = "class" -> IsIdentifier(s.name)
    [] s.t = "Assign" ->
         /\ s.targets # <<>>
         /\ \A i \in 1..Len(s.targets) : TargetOk(s.targets[i])
         /\ ExprOk(s.value)
    [] s.t = "Return" -> s.value # None => ExprOk(Val(s.value))
    [] s.t = "Expr" -> ExprOk(s.value)
    [] s.t = "Pass" -> TRUE
    [] OTHER -> FALSE

SyntaxFail == [ok |-> FALSE]
\* the statements at indentation ind from line i on, up to the first line
\* indented less; a line indented more than its block is rejected
RECURSIVE ParseBlock(_, _, _)
ParseBlock(ls, i, ind) ==
  IF i > Len(ls) \/ ls[i].indent < ind THEN [ok |-> TRUE, body |-> <<>>, next |-> i]
  ELSE IF ls[i].indent > ind \/ ~LineOk(ls[i].s) THEN SyntaxFail
  ELSE IF IsHeader(ls[i])
  THEN IF i + 1 > Len(ls) \/ ls[i + 1].indent <= ind THEN SyntaxFail
       ELSE LET sub == ParseBlock(ls, i + 1, ls[i + 1].indent)
            IN  IF ~sub.ok THEN SyntaxFail
                ELSE LET node == IF ls[i].s.t = "def"
                                 THEN Returning(FunctionDef(ls[i].s.name, ls[i].s.args,
                                                            ls[i].s.defaults, sub.body),
                                                ls[i].s.returns)
                                 ELSE ClassDef(ls[i].s.name, sub.body)
                         rest == ParseBlock(ls, sub.next, ind)
                     IN  IF ~rest.ok THEN SyntaxFail
                         ELSE [ok |-> TRUE, body |-> <<node>> \o rest.body,
                               next |-> rest.next]
  ELSE LET rest == ParseBlock(ls, i + 1, ind)
       IN  IF ~rest.ok THEN SyntaxFail
           ELSE [ok |-> TRUE, body |-> <<ls[i].s>> \o rest.body, next |-> rest.next]

NotBlank(l) == ~IsBlank(l)
\* ast.parse(code): [ok, body]; ok is FALSE for a SyntaxError
parse(code) == ParseBlock(SelectSeq(code, NotBlank), 1, 0)

\* ast.unparse(tree): four spaces a level, an empty line before each def
\* and class except at the very start of the text
RECURSIVE UnparseBody(_, _, _)
UnparseBody(body, depth, atStart) ==
  IF body = <<>> THEN <<>>
  ELSE LET s == Head(body)
           lead == IF atStart THEN <<>> ELSE <<Blank>>
           here ==
             CASE s.t = "FunctionDef" ->
                    lead \o <<Line(4 * depth, Returning(DefLine(s.name, s.args, s.defaults),
                                                         s.returns))>>
                    \o UnparseBody(s.body, depth + 1, FALSE)
               [] s.t = "ClassDef" ->
                    lead \o <<Line(4 * depth, ClassLine(s.name))>>
                    \o UnparseBody(s.body, depth + 1, FALSE)
               [] OTHER -> <<Line(4 * depth, s)>>
       IN  here \o UnparseBody(Tail(body), depth, FALSE)
unparse(body) == UnparseBody(body, 0, TRUE)

\* ------------------------------------------------------------------------
\* RefactoringEngine: the seven handlers
\* ------------------------------------------------------------------------
\* what a call of the engine gives: the text it returns or the exception
TextResult(lines) == [result |-> Some(lines), raised |-> None]
EngineRaise(type, msg) == [result |-> None, raised |-> Some([type |-> type, msg |-> msg])]
\* the name a node holds after it was assigned None
NoneName == <<>>

\* seq[lo:hi] of Python, lo and hi optional and possibly negative
SliceIndex(x, n) ==
  IF x < 0 THEN (IF x + n < 0 THEN 0 ELSE x + n) ELSE (IF x > n THEN n ELSE x)
PySlice(seq, lo, hi) ==
  LET n == Len(seq)
      a == IF lo = None THEN 0 ELSE SliceIndex(Val(lo), n)
      b == IF hi = None THEN n ELSE SliceIndex(Val(hi), n)
  IN  SubSeq(seq, a + 1, b)

\* an extraction that takes the text after the extracted lines from the last
\* of them on
extract_method_FromLastLine(code, operation) ==
  IF operation.start_line = None
  THEN EngineRaise("TypeError", "unsupported operand type(s) for -")
  ELSE
    LET lo == Some(Val(operation.start_line) - 1)
        hi == operation.end_line
        name == IF operation.new_method_name = None THEN Str.None
                ELSE Val(operation.new_method_name)
        extracted_lines == PySlice(code, lo, hi)
        method_def ==
          <<Line(0, DefLine(name, <<Arg(Str.item_price, None)>>, <<>>))>>
          \o [i \in 1..Len(extracted_lines) |-> Line(4, extracted_lines[i].s)]
          \o <<Line(4, Return(Some(Name(Str.discounted_price)))), Blank>>
        call_line ==
          Line(12, Assign(<<Name(Str.discounted_price)>>,
                          Call(Name(name), <<Attribute(Name(Str.item), Str.price)>>)))
        new_lines ==
          PySlice(code, None, lo) \o <<call_line>>
          \o PySlice(code, IF hi = None THEN None ELSE Some(Val(hi) - 1), None)
    IN  TextResult(method_def \o new_lines)
\* RefactoringEngine._extract_method: works on the lines, parses nothing
extract_method(code, operation) ==
  IF operation.start_line = None
  THEN EngineRaise("TypeError", "unsupported operand type(s) for -")
  ELSE
    LET lo == Some(Val(operation.start_line) - 1)
        hi == operation.end_line
        name == IF operation.new_method_name = None THEN Str.None
                ELSE Val(operation.new_method_name)
        extracted_lines == PySlice(code, lo, hi)
        method_def ==
          <<Line(0, DefLine(name, <<Arg(Str.item_price, None)>>, <<>>))>>
          \o [i \in 1..Len(extracted_lines) |-> Line(4, extracted_lines[i].s)]
          \o <<Line(4, Return(Some(Name(Str.discounted_price)))), Blank>>
        call_line ==
          Line(12, Assign(<<Name(Str.discounted_price)>>,
                          Call(Name(name), <<Attribute(Name(Str.item), Str.price)>>)))
        new_lines == PySlice(code, None, lo) \o <<call_line>> \o PySlice(code, hi, None)
    IN  TextResult(method_def \o new_lines)

\* VariableRenamer: visit_Name renames a name, visit_arg a parameter (and
\* does not go into its annotation)
RECURSIVE RenameVarExpr(_, _, _)
RenameVarExpr(x, old, new) ==
  CASE x.e = "Name" -> IF Some(x.id) = old THEN Name(new) ELSE x
    [] x.e = "BinOp" ->
         BinOp(RenameVarExpr(x.left, old, new), x.op, RenameVarExpr(x.right, old, new))
    [] x.e = "Call" ->
         Call(RenameVarExpr(x.func, old, new),
              [i \in 1..Len(x.args) |-> RenameVarExpr(x.args[i], old, new)])
    [] x.e = "Attribute" -> Attribute(RenameVarExpr(x.value, old, new), x.attr)
    [] OTHER -> x
RECURSIVE RenameVarStmt(_, _, _)
RenameVarStmt(s, old, new) ==
  CASE s.t = "FunctionDef" ->
         Returning(
           FunctionDef(s.name,
             [i \in 1..Len(s.args) |->
                IF Some(s.args[i].arg) = old THEN Arg(new, s.args[i].annotation)
                ELSE s.args[i]],
             [i \in 1..Len(s.defaults) |-> RenameVarExpr(s.defaults[i], old, new)],
             [i \in 1..Len(s.body) |-> RenameVarStmt(s.body[i], old, new)]),
           [i \in 1..Len(s.returns) |-> RenameVarExpr(s.returns[i], old, new)])
    [] s.t = "ClassDef" ->
         ClassDef(s.name, [i \in 1..Len(s.body) |-> RenameVarStmt(s.body[i], old, new)])
    [] s.t = "Assign" ->
         Assign([i \in 1..Len(s.targets) |-> RenameVarExpr(s.targets[i], old, new)],
                RenameVarExpr(s.value, old, new))
    [] s.t = "Return" ->
         IF s.value = None THEN s ELSE Return(Some(RenameVarExpr(Val(s.value), old, new)))
    [] s.t = "Expr" -> Expr(RenameVarExpr(s.value, old, new))
    [] OTHER -> s

\* a variant that takes the two names the other way round
rename_variable_Swapped(code, operation) ==
  LET tree == parse(code)
      transformed ==
        [i \in 1..Len(tree.body) |->
           RenameVarStmt(tree.body[i], operation.new_name,
                         IF operation.old_name = None THEN NoneName
                         ELSE Val(operation.old_name))]
  IN  IF ~tree.ok THEN EngineRaise("SyntaxError", "invalid syntax")
      ELSE TextResult(unparse(transformed))
\* RefactoringEngine._rename_variable; a node renamed to None makes
\* ast.unparse raise TypeError
rename_variable(code, operation) ==
  LET tree == parse(code)
      new == IF operation.new_name = None THEN NoneName ELSE Val(operation.new_name)
      transformed ==
        [i \in 1..Len(tree.body) |-> RenameVarStmt(tree.body[i], operation.old_name, new)]
  IN  IF ~tree.ok THEN EngineRaise("SyntaxError", "invalid syntax")
      ELSE IF operation.new_name = None /\ transformed # tree.body
      THEN EngineRaise("TypeError", "expected str instance, NoneType found")
      ELSE TextResult(unparse(transformed))

\* FunctionRenamer: visit_FunctionDef renames a definition, visit_Call a call
\* whose callee is the bare name; both go on into the children
RECURSIVE RenameFuncExpr(_, _, _)
RenameFuncExpr(x, old, new) ==
  CASE x.e = "BinOp" ->
         BinOp(RenameFuncExpr(x.left, old, new), x.op, RenameFuncExpr(x.right, old, new))
    [] x.e = "Call" ->
         LET func == IF x.func.e = "Name" /\ Some(x.func.id) = old
                     THEN Name(new) ELSE x.func
         IN  Call(RenameFuncExpr(func, old, new),
                  [i \in 1..Len(x.args) |-> RenameFuncExpr(x.args[i], old, new)])
    [] x.e = "Attribute" -> Attribute(RenameFuncExpr(x.value, old, new), x.attr)
    [] OTHER -> x
RECURSIVE RenameFuncStmt(_, _, _)
RenameFuncStmt(s, old, new) ==
  CASE s.t = "FunctionDef" ->
         Returning(
           FunctionDef(IF Some(s.name) = old THEN new ELSE s.name,
             [i \in 1..Len(s.args) |->
                IF s.args[i].annotation = None THEN s.args[i]
                ELSE Arg(s.args[i].arg,
                         Some(RenameFuncExpr(Val(s.args[i].annotation), old, new)))],
             [i \in 1..Len(s.defaults) |-> RenameFuncExpr(s.defaults[i], old, new)],
             [i \in 1..Len(s.body) |-> RenameFuncStmt(s.body[i], old, new)]),
           [i \in 1..Len(s.returns) |-> RenameFuncExpr(s.returns[i], old, new)])
    [] s.t = "ClassDef" ->
         ClassDef(s.name, [i \in 1..Len(s.body) |-> RenameFuncStmt(s.body[i], old, new)])
    [] s.t = "Assign" ->
         Assign([i \in 1..Len(s.targets) |-> RenameFuncExpr(s.targets[i], old, new)],
                RenameFuncExpr(s.value, old, new))
    [] s.t = "Return" ->
         IF s.value = None THEN s ELSE Return(Some(RenameFuncExpr(Val(s.value), old, new)))
    [] s.t = "Expr" -> Expr(RenameFuncExpr(s.value, old, new))
    [] OTHER -> s

\* a variant that runs the VariableRenamer for a rename_function
rename_function_AsVariable(code, operation) == rename_variable(code, operation)
\* RefactoringEngine._rename_function
rename_function(code, operation) ==
  LET tree == parse(code)
      new == IF operation.new_name = None THEN NoneName ELSE Val(operation.new_name)
      transformed ==
        [i \in 1..Len(tree.body) |-> RenameFuncStmt(tree.body[i], operation.old_name, new)]
  IN  IF ~tree.ok THEN EngineRaise("SyntaxError", "invalid syntax")
      ELSE IF operation.new_name = None /\ transformed # tree.body
      THEN EngineRaise("TypeError", "can only concatenate str")
      ELSE TextResult(unparse(transformed))

\* VariableInliner.visit_Name: a load of the variable becomes the value
\* node once one has been taken; an assigned name is a store and stays
RECURSIVE InlineVarExpr(_, _, _)
InlineVarExpr(x, var, value_node) ==
  CASE x.e = "Name" ->
         IF Some(x.id) = var /\ value_node # None THEN Val(value_node) ELSE x
    [] x.e = "BinOp" ->
         BinOp(InlineVarExpr(x.left, var, value_node), x.op,
               InlineVarExpr(x.right, var, value_node))
    [] x.e = "Call" ->
         Call(InlineVarExpr(x.func, var, value_node),
              [i \in 1..Len(x.args) |-> InlineVarExpr(x.args[i], var, value_node)])
    [] x.e = "Attribute" -> Attribute(InlineVarExpr(x.value, var, value_node), x.attr)
    [] OTHER -> x
InlineVarTarget(t, var, value_node) ==
  IF t.e = "Name" THEN t ELSE InlineVarExpr(t, var, value_node)
\* the statements of a body in order; value_node is the inliner's state
\* (found_assignment is set together with it).  generic_visit goes through
\* the fields of a def in the order args, body, returns: the annotation of
\* what the def returns is visited after the body
RECURSIVE InlineVarBody(_, _, _)
InlineVarBody(body, var, value_node) ==
  IF body = <<>> THEN [body |-> <<>>, value_node |-> value_node]
  ELSE
    LET s == Head(body)
        first ==
          CASE s.t = "Assign" ->
                 IF /\ Len(s.targets) = 1
                    /\ s.targets[1].e = "Name"
                    /\ Some(s.targets[1].id) = var
                    /\ value_node = None
                 THEN [body |-> <<>>, value_node |-> Some(s.value)]
                 ELSE [body |-> <<Assign([i \in 1..Len(s.targets) |->
                                            InlineVarTarget(s.targets[i], var, value_node)],
                                         InlineVarExpr(s.value, var, value_node))>>,
                       value_node |-> value_node]
            [] s.t = "FunctionDef" ->
                 LET sub == InlineVarBody(s.body, var, value_node)
                 IN  [body |-> <<Returning(
                        FunctionDef(s.name,
                          [i \in 1..Len(s.args) |->
                             IF s.args[i].annotation = None THEN s.args[i]
                             ELSE Arg(s.args[i].arg,
                                      Some(InlineVarExpr(Val(s.args[i].annotation), var, value_node)))],
                          [i \in 1..Len(s.defaults) |->
                             InlineVarExpr(s.defaults[i], var, value_node)],
                          sub.body),
                        [i \in 1..Len(s.returns) |->
                           InlineVarExpr(s.returns[i], var, sub.value_node)])>>,
                      value_node |-> sub.value_node]
            [] s.t = "ClassDef" ->
                 LET sub == InlineVarBody(s.body, var, value_node)
                 IN  [body |-> <<ClassDef(s.name, sub.body)>>, value_node |-> sub.value_node]
            [] s.t = "Return" ->
                 [body |-> <<IF s.value = None THEN s
                             ELSE Return(Some(InlineVarExpr(Val(s.value), var, value_node)))>>,
                  value_node |-> value_node]
            [] s.t = "Expr" ->
                 [body |-> <<Expr(InlineVarExpr(s.value, var, value_node))>>,
                  value_node |-> value_node]
            [] OTHER -> [body |-> <<s>>, value_node |-> value_node]
        rest == InlineVarBody(Tail(body), var, first.value_node)
    IN  [body |-> first.body \o rest.body, value_node |-> rest.value_node]

\* RefactoringEngine._inline_variable
inline_variable(code, operation) ==
  LET tree == parse(code)
  IN  IF ~tree.ok THEN EngineRaise("SyntaxError", "invalid syntax")
      ELSE TextResult(unparse(InlineVarBody(tree.body, operation.variable_name, None).body))

\* FunctionInliner.  body_node is one node object: every call site gets that
\* same object, and a substitution at one call site writes into it.  The
\* inliner's state: the body nodes taken so far (objs), which of them
\* body_node is (cur, 0 for None), the parameter names, and whether
\* node.args[...] ran out of range.
Shared(k) == [e |-> "Shared", k |-> k]
InlinerInit == [objs |-> <<>>, cur |-> 0, params |-> <<>>, err |-> FALSE]
\* list.index
IndexOf(seq, v) == CHOOSE i \in 1..Len(seq) : seq[i] = v /\ \A j \in 1..(i - 1) : seq[j] # v
InSeq(seq, v) == \E i \in 1..Len(seq) : seq[i] = v
\* the two conditional assignments to result.left and result.right
SubstituteParams(obj, args, params) ==
  LET hitL == obj.left.e = "Name" /\ InSeq(params, obj.left.id)
      hitR == obj.right.e = "Name" /\ InSeq(params, obj.right.id)
      iL == IndexOf(params, obj.left.id)
      iR == IndexOf(params, obj.right.id)
  IN  IF hitL /\ iL > Len(args) THEN [err |-> TRUE, obj |-> obj]
      ELSE LET afterL == IF hitL THEN [obj EXCEPT !.left = args[iL]] ELSE obj
           IN  IF hitR /\ iR > Len(args) THEN [err |-> TRUE, obj |-> afterL]
               ELSE [err |-> FALSE,
                     obj |-> IF hitR THEN [afterL EXCEPT !.right = args[iR]] ELSE afterL]
\* a traversal carries what it has rebuilt so far and the inliner's state
Visited(st) == [xs |-> <<>>, st |-> st]
Push(acc, r) == [xs |-> Append(acc.xs, r.x), st |-> r.st]
Extend(acc, r) == [xs |-> acc.xs \o r.xs, st |-> r.st]
AsCall(r) == [x |-> Call(Head(r.xs), Tail(r.xs)), st |-> r.st]
AsBinOp(op, r) == [x |-> BinOp(r.xs[1], op, r.xs[2]), st |-> r.st]
AsAttribute(attr, r) == [x |-> Attribute(r.x, attr), st |-> r.st]
\* visit_Call on a call of the function once body_node is set
ReplaceCall(x, st) ==
  LET obj == st.objs[st.cur]
      sub == SubstituteParams(obj, x.args, st.params)
  IN  IF obj.e = "BinOp" /\ Len(x.args) = 2
      THEN [x |-> Shared(st.cur),
            st |-> [st EXCEPT !.objs[st.cur] = sub.obj, !.err = sub.err]]
      ELSE [x |-> Shared(st.cur), st |-> st]
RECURSIVE InlineFuncExpr(_, _, _)
RECURSIVE InlineFuncExprs(_, _, _)
InlineFuncExpr(x, fn, st) ==
  IF st.err THEN [x |-> x, st |-> st]
  ELSE
  CASE x.e = "Call" ->
         IF x.func.e = "Name" /\ Some(x.func.id) = fn /\ st.cur # 0
         THEN ReplaceCall(x, st)
         ELSE AsCall(InlineFuncExprs(<<x.func>> \o x.args, fn, Visited(st)))
    [] x.e = "BinOp" ->
         AsBinOp(x.op, InlineFuncExprs(<<x.left, x.right>>, fn, Visited(st)))
    [] x.e = "Attribute" -> AsAttribute(x.attr, InlineFuncExpr(x.value, fn, st))
    [] OTHER -> [x |-> x, st |-> st]
\* the expressions xs in order, after those of acc
InlineFuncExprs(xs, fn, acc) ==
  IF xs = <<>> THEN acc
  ELSE InlineFuncExprs(Tail(xs), fn, Push(acc, InlineFuncExpr(Head(xs), fn, acc.st)))

\* the expressions of a def's arguments in the order they are visited: the
\* annotations, then the defaults
Annotated(args) ==
  LET HasAnnotation(a) == a.annotation # None
  IN  SelectSeq(args, HasAnnotation)
HeaderExprs(s) ==
  [i \in 1..Len(Annotated(s.args)) |-> Val(Annotated(s.args)[i].annotation)] \o s.defaults
WithHeaderExprs(s, xs, body) ==
  LET Rank(i) == Cardinality({j \in 1..i : s.args[j].annotation # None})
      n == Len(Annotated(s.args))
  IN  FunctionDef(s.name,
        [i \in 1..Len(s.args) |->
           IF s.args[i].annotation = None THEN s.args[i]
           ELSE Arg(s.args[i].arg, Some(xs[Rank(i)]))],
        SubSeq(xs, n + 1, Len(xs)),
        body)
\* FunctionInliner.visit_FunctionDef on the function to inline
TakeBody(s, st) ==
  LET taken == s.body # <<>> /\ s.body[1].t = "Return"
      value == s.body[1].value
      objs == IF taken /\ value # None THEN Append(st.objs, Val(value)) ELSE st.objs
      cur == IF ~taken THEN st.cur ELSE IF value = None THEN 0 ELSE Len(objs)
  IN  [st EXCEPT !.objs = objs, !.cur = cur,
                 !.params = [i \in 1..Len(s.args) |-> s.args[i].arg]]
AsAssign(r) ==
  [xs |-> <<Assign(SubSeq(r.xs, 1, Len(r.xs) - 1), r.xs[Len(r.xs)])>>, st |-> r.st]
AsReturn(r) == [xs |-> <<Return(Some(r.x))>>, st |-> r.st]
AsExpr(r) == [xs |-> <<Expr(r.x)>>, st |-> r.st]
AsClassDef(name, r) == [xs |-> <<ClassDef(name, r.xs)>>, st |-> r.st]
AsFunctionDef(s, header, r) ==
  [xs |-> <<WithHeaderExprs(s, header.xs, r.xs)>>, st |-> r.st]
RECURSIVE InlineFuncBody(_, _, _)
\* a def that is not the function: its header, then its body, then the
\* annotation of what it returns
SetReturns(r, v) == [xs |-> <<Returning(r.xs[1], Some(v.x))>>, st |-> v.st]
VisitReturns(s, fn, r) ==
  IF s.returns = None THEN r
  ELSE SetReturns(r, InlineFuncExpr(Val(s.returns), fn, r.st))
VisitDef(s, fn, header) ==
  VisitReturns(s, fn,
    AsFunctionDef(s, header, InlineFuncBody(s.body, fn, Visited(header.st))))
InlineFuncStmt(s, fn, st) ==
  CASE s.t = "FunctionDef" ->
         IF Some(s.name) = fn THEN Visited(TakeBody(s, st))
         ELSE VisitDef(s, fn, InlineFuncExprs(HeaderExprs(s), fn, Visited(st)))
    [] s.t = "ClassDef" -> AsClassDef(s.name, InlineFuncBody(s.body, fn, Visited(st)))
    [] s.t = "Assign" ->
         AsAssign(InlineFuncExprs(s.targets \o <<s.value>>, fn, Visited(st)))
    [] s.t = "Return" ->
         IF s.value = None THEN [xs |-> <<s>>, st |-> st]
         ELSE AsReturn(InlineFuncExpr(Val(s.value), fn, st))
    [] s.t = "Expr" -> AsExpr(InlineFuncExpr(s.value, fn, st))
    [] OTHER -> [xs |-> <<s>>, st |-> st]
\* the statements of body in order, after those of acc
InlineFuncBody(body, fn, acc) ==
  IF body = <<>> THEN acc
  ELSE InlineFuncBody(Tail(body), fn, Extend(acc, InlineFuncStmt(Head(body), fn, acc.st)))
\* what the shared nodes hold once the traversal is over
RECURSIVE DerefExpr(_, _)
DerefExpr(x, objs) ==
  CASE x.e = "Shared" -> objs[x.k]
    [] x.e = "BinOp" -> BinOp(DerefExpr(x.left, objs), x.op, DerefExpr(x.right, objs))
    [] x.e = "Call" ->
         Call(DerefExpr(x.func, objs), [i \in 1..Len(x.args) |-> DerefExpr(x.args[i], objs)])
    [] x.e = "Attribute" -> Attribute(DerefExpr(x.value, objs), x.attr)
    [] OTHER -> x
RECURSIVE DerefStmt(_, _)
DerefStmt(s, objs) ==
  CASE s.t = "FunctionDef" ->
         Returning(
           FunctionDef(s.name,
             [i \in 1..Len(s.args) |->
                IF s.args[i].annotation = None THEN s.args[i]
                ELSE Arg(s.args[i].arg, Some(DerefExpr(Val(s.args[i].annotation), objs)))],
             [i \in 1..Len(s.defaults) |-> DerefExpr(s.defaults[i], objs)],
             [i \in 1..Len(s.body) |-> DerefStmt(s.body[i], objs)]),
           [i \in 1..Len(s.returns) |-> DerefExpr(s.returns[i], objs)])
    [] s.t = "ClassDef" ->
         ClassDef(s.name, [i \in 1..Len(s.body) |-> DerefStmt(s.body[i], objs)])
    [] s.t = "Assign" ->
         Assign([i \in 1..Len(s.targets) |-> DerefExpr(s.targets[i], objs)],
                DerefExpr(s.value, objs))
    [] s.t = "Return" ->
         IF s.value = None THEN s ELSE Return(Some(DerefExpr(Val(s.value), objs)))
    [] s.t = "Expr" -> Expr(DerefExpr(s.value, objs))
    [] OTHER -> s

\* RefactoringEngine._inline_function
inline_function(code, operation) ==
  LET tree == parse(code)
      done == InlineFuncBody(tree.body, operation.function_name, Visited(InlinerInit))
  IN  IF ~tree.ok THEN EngineRaise("SyntaxError", "invalid syntax")
      ELSE IF done.st.err THEN EngineRaise("IndexError", "list index out of range")
      ELSE TextResult(unparse([i \in 1..Len(done.xs) |-> DerefStmt(done.xs[i], done.st.objs)]))

\* MethodMover.visit_ClassDef; method_to_move is the mover's state.  A class
\* is not descended into.  node.body == [ast.Pass()] compares a list of
\* nodes with a list of a fresh node, and nodes are equal only when they are
\* the same object: the comparison is never true, the method is appended.
IsMethodNamed(item, name) == item.t = "FunctionDef" /\ Some(item.name) = name
LastNamed(body, name, before) ==
  IF \E i \in 1..Len(body) : IsMethodNamed(body[i], name)
  THEN LET i == CHOOSE k \in 1..Len(body) :
                  /\ IsMethodNamed(body[k], name)
                  /\ \A j \in (k + 1)..Len(body) : ~IsMethodNamed(body[j], name)
       IN  Some(body[i])
  ELSE before
visit_ClassDef(node, operation, method_to_move) ==
  IF Some(node.name) = operation.source_class
  THEN LET Keep(item) == ~IsMethodNamed(item, operation.method_name)
       IN  [node |-> ClassDef(node.name, SelectSeq(node.body, Keep)),
            method_to_move |-> LastNamed(node.body, operation.method_name, method_to_move)]
  ELSE IF Some(node.name) = operation.target_class /\ method_to_move # None
  THEN [node |-> ClassDef(node.name, Append(node.body, Val(method_to_move))),
        method_to_move |-> method_to_move]
  ELSE [node |-> node, method_to_move |-> method_to_move]
RECURSIVE MoveBody(_, _, _)
MoveBody(body, operation, method_to_move) ==
  IF body = <<>> THEN [body |-> <<>>, method_to_move |-> method_to_move]
  ELSE
    LET s == Head(body)
        first ==
          CASE s.t = "ClassDef" ->
                 LET v == visit_ClassDef(s, operation, method_to_move)
                 IN  [body |-> <<v.node>>, method_to_move |-> v.method_to_move]
            [] s.t = "FunctionDef" ->
                 LET b == MoveBody(s.body, operation, method_to_move)
                 IN  [body |-> <<Returning(FunctionDef(s.name, s.args, s.defaults, b.body),
                                           s.returns)>>,
                      method_to_move |-> b.method_to_move]
            [] OTHER -> [body |-> <<s>>, method_to_move |-> method_to_move]
        rest == MoveBody(Tail(body), operation, first.method_to_move)
    IN  [body |-> first.body \o rest.body, method_to_move |-> rest.method_to_move]

\* RefactoringEngine._move_method
move_method(code, operation) ==
  LET tree == parse(code)
  IN  IF ~tree.ok THEN EngineRaise("SyntaxError", "invalid syntax")
      ELSE TextResult(unparse(MoveBody(tree.body, operation, None).body))

\* DeadCodeRemover.visit_FunctionDef: a def is dropped when its name is in
\* dead_functions and is not descended into; a class is descended into
RECURSIVE RemoveDead(_, _)
RemoveDead(body, dead) ==
  IF body = <<>> THEN <<>>
  ELSE LET s == Head(body)
           first ==
             CASE s.t = "FunctionDef" -> IF InSeq(dead, s.name) THEN <<>> ELSE <<s>>
               [] s.t = "ClassDef" -> <<ClassDef(s.name, RemoveDead(s.body, dead))>>
               [] OTHER -> <<s>>
       IN  first \o RemoveDead(Tail(body), dead)
\* a def the remover comes to
RECURSIVE VisitsDef(_)
VisitsDef(body) ==
  \E i \in 1..Len(body) :
    \/ body[i].t = "FunctionDef"
    \/ body[i].t = "ClassDef" /\ VisitsDef(body[i].body)

\* RefactoringEngine._remove_dead_code; "name in None" raises TypeError
remove_dead_code(code, operation) ==
  LET tree == parse(code)
  IN  IF ~tree.ok THEN EngineRaise("SyntaxError", "invalid syntax")
      ELSE IF operation.dead_functions = None
      THEN IF VisitsDef(tree.body)
           THEN EngineRaise("TypeError", "argument of type 'NoneType' is not iterable")
           ELSE TextResult(unparse(tree.body))
      ELSE TextResult(unparse(RemoveDead(tree.body, Val(operation.dead_functions))))

\* RefactoringEngine.__init__
SupportedOperations ==
  <<"extract_method", "rename_variable", "rename_function", "inline_variable",
    "inline_function", "move_method", "remove_dead_code">>

\* the if/elif chain of apply_refactoring
Dispatch(code, operation) ==
  CASE operation.type = "extract_method" -> extract_method(code, operation)
    [] operation.type = "rename_variable" -> rename_variable(code, operation)
    [] operation.type = "rename_function" -> rename_function(code, operation)
    [] operation.type = "inline_variable" -> inline_variable(code, operation)
    [] operation.type = "inline_function" -> inline_function(code, operation)
    [] operation.type = "move_method" -> move_method(code, operation)
    [] operation.type = "remove_dead_code" -> remove_dead_code(code, operation)
    [] OTHER -> [result |-> None, raised |-> None]

NotSupported == EngineRaise("NotImplementedError", "Operation not supported")
\* a variant that hands the text to the parser before looking at the type
apply_refactoring_ParseFirst(code, operation, supported) ==
  IF ~parse(code).ok THEN EngineRaise("SyntaxError", "invalid syntax")
  ELSE IF ~InSeq(supported, operation.type) THEN NotSupported
  ELSE Dispatch(code, operation)
\* RefactoringEngine.apply_refactoring
apply_refactoring(code, operation, supported) ==
  IF ~InSeq(supported, operation.type) THEN NotSupported
  ELSE Dispatch(code, operation)

\* ------------------------------------------------------------------------
\* The text of a source, character by character, and validate_refactoring
\* ------------------------------------------------------------------------
Spaces(n) == [i \in 1..n |-> " "]
\* str(n) of a natural number
RECURSIVE Digits(_)
Digits(n) ==
  IF n < 10 THEN <<DigitChars[n + 1]>>
  ELSE Digits(n \div 10) \o <<DigitChars[(n % 10) + 1]>>
\* sep.join(parts)
RECURSIVE Joined(_, _)
Joined(parts, sep) ==
  IF parts = <<>> THEN <<>>
  ELSE IF Len(parts) = 1 THEN parts[1]
  ELSE parts[1] \o sep \o Joined(Tail(parts), sep)
RECURSIVE ExprText(_)
ExprText(x) ==
  CASE x.e = "Name" -> x.id
    [] x.e = "Num" -> Digits(x.n)
    [] x.e = "Str" -> <<"\"">> \o x.s \o <<"\"">>
    [] x.e = "BinOp" ->
         (IF x.left.e = "BinOp" THEN <<"(">> \o ExprText(x.left) \o <<")">>
          ELSE ExprText(x.left))
         \o <<" ", x.op, " ">>
         \o (IF x.right.e = "BinOp" THEN <<"(">> \o ExprText(x.right) \o <<")">>
             ELSE ExprText(x.right))
    [] x.e = "Call" ->
         ExprText(x.func) \o <<"(">>
         \o Joined([i \in 1..Len(x.args) |-> ExprText(x.args[i])], <<",", " ">>)
         \o <<")">>
    [] x.e = "Attribute" -> ExprText(x.value) \o <<".">> \o x.attr
\* the i-th parameter of a def: name, ": annotation", "=default"; the
\* defaults belong to the last parameters
ArgText(s, i) ==
  s.args[i].arg
  \o (IF s.args[i].annotation = None THEN <<>>
      ELSE <<":", " ">> \o ExprText(Val(s.args[i].annotation)))
  \o (IF i <= Len(s.args) - Len(s.defaults) THEN <<>>
      ELSE <<"=">> \o ExprText(s.defaults[i - (Len(s.args) - Len(s.defaults))]))
StmtText(s) ==
  CASE s.t = "Blank" -> <<>>
    [] s.t = "Junk" -> <<"d","e","f"," ","(">>
    [] s.t = "Pass" -> <<"p","a","s","s">>
    [] s.t = "Expr" -> ExprText(s.value)
    [] s.t = "Return" ->
         <<"r","e","t","u","r","n">>
         \o (IF s.value = None THEN <<>> ELSE <<" ">> \o ExprText(Val(s.value)))
    [] s.t = "Assign" ->
         Joined([i \in 1..Len(s.targets) |-> ExprText(s.targets[i])] \o <<ExprText(s.value)>>,
                <<" ", "=", " ">>)
    [] s.t = "class" -> <<"c","l","a","s","s"," ">> \o s.name \o <<":">>
    [] s.t = "def" ->
         <<"d","e","f"," ">> \o s.name \o <<"(">>
         \o Joined([i \in 1..Len(s.args) |-> ArgText(s, i)], <<",", " ">>)
         \o <<")">>
         \o (IF s.returns = None THEN <<>>
             ELSE <<" ","-",">"," ">> \o ExprText(Val(s.returns)))
         \o <<":">>
LineText(l) == Spaces(l.indent) \o StmtText(l.s)
\* the text the lines are the split of
Text(code) == Joined([i \in 1..Len(code) |-> LineText(code[i])], <<"\n">>)

\* what a call of validate_refactoring gives: the boolean or the exception
Answer(b) == [value |-> Some(b), raised |-> None]
ValidateRaise(type, msg) == [value |-> None, raised |-> Some([type |-> type, msg |-> msg])]
\* RefactoringEngine.validate_refactoring; "None in code" raises TypeError,
\* which the except clause for SyntaxError does not catch
validate_refactoring(code, operation) ==
  IF ~parse(code).ok THEN Answer(FALSE)
  ELSE IF operation.type \in {"rename_function", "rename_variable"}
  THEN IF operation.old_name = None
       THEN ValidateRaise("TypeError", "'in <string>' requires string as left operand, not NoneType")
       ELSE Answer(Contains(Text(code), Val(operation.old_name)))
  ELSE Answer(TRUE)

\* RefactoringEngine.preserve_semantics: both texts are parsed, SyntaxError
\* is caught
preserve_semantics(original_code, refactored_code) ==
  IF ~parse(original_code).ok THEN Answer(FALSE)
  ELSE IF ~parse(refactored_code).ok THEN Answer(FALSE)
  ELSE Answer(TRUE)

\* the words the prompts and the source texts of the model are made of
W ==
  [
    name |-> <<"n","a","m","e">>,
    Rename |-> <<"R","e","n","a","m","e">>,
    Move |-> <<"M","o","v","e">>,
    Remove |-> <<"R","e","m","o","v","e">>,
    Extract |-> <<"E","x","t","r","a","c","t">>,
    Inline |-> <<"I","n","l","i","n","e">>,
    function |-> <<"f","u","n","c","t","i","o","n">>,
    variable |-> <<"v","a","r","i","a","b","l","e">>,
    functions |-> <<"f","u","n","c","t","i","o","n","s">>,
    method |-> <<"m","e","t","h","o","d">>,
    to |-> <<"t","o">>,
    from |-> <<"f","r","o","m">>,
    class |-> <<"c","l","a","s","s">>,
    calc |-> <<"c","a","l","c">>,
    Calc |-> <<"C","a","l","c">>,
    sum_2 |-> <<"s","u","m","_","2">>,
    convert |-> <<"c","o","n","v","e","r","t">>,
    x |-> <<"x">>,
    Total |-> <<"T","o","t","a","l">>,
    add |-> <<"a","d","d">>,
    Sort |-> <<"S","o","r","t">>,
    Calculator |-> <<"C","a","l","c","u","l","a","t","o","r">>,
    mathUtils |-> <<"m","a","t","h","U","t","i","l","s">>,
    Auto |-> <<"A","u","t","o">>,
    B |-> <<"B">>,
    foo |-> <<"f","o","o">>,
    Bar |-> <<"B","a","r">>,
    old_helper |-> <<"o","l","d","_","h","e","l","p","e","r">>,
    rename_a |-> <<"r","e","n","a","m","e","_","a">>,
    function_b |-> <<"f","u","n","c","t","i","o","n","_","b">>,
    please |-> <<"p","l","e","a","s","e">>,
    now |-> <<"n","o","w">>,
    on |-> <<"o","n">>,
    lines |-> <<"l","i","n","e","s">>,
    into |-> <<"i","n","t","o">>,
    a |-> <<"a">>,
    called |-> <<"c","a","l","l","e","d">>,
    the |-> <<"t","h","e">>,
    validation |-> <<"v","a","l","i","d","a","t","i","o","n">>,
    calculation |-> <<"c","a","l","c","u","l","a","t","i","o","n">>,
    logic |-> <<"l","o","g","i","c">>,
    it |-> <<"i","t">>,
    all |-> <<"a","l","l">>,
    make |-> <<"m","a","k","e">>,
    better |-> <<"b","e","t","t","e","r">>,
    remake |-> <<"r","e","m","a","k","e">>,
    improve |-> <<"i","m","p","r","o","v","e">>,
    unclear |-> <<"u","n","c","l","e","a","r">>,
    split |-> <<"s","p","l","i","t">>,
    relocate |-> <<"r","e","l","o","c","a","t","e">>,
    translate |-> <<"t","r","a","n","s","l","a","t","e">>,
    code |-> <<"c","o","d","e">>,
    expand |-> <<"e","x","p","a","n","d">>,
    y |-> <<"y">>,
    z |-> <<"z">>,
    f |-> <<"f">>,
    g |-> <<"g">>,
    b |-> <<"b">>,
    self |-> <<"s","e","l","f">>,
    total |-> <<"t","o","t","a","l">>,
    process_data |-> <<"p","r","o","c","e","s","s","_","d","a","t","a">>,
    main |-> <<"m","a","i","n">>,
    result |-> <<"r","e","s","u","l","t">>,
    temp |-> <<"t","e","m","p">>,
    calculate |-> <<"c","a","l","c","u","l","a","t","e">>,
    simple_add |-> <<"s","i","m","p","l","e","_","a","d","d">>,
    MathUtils |-> <<"M","a","t","h","U","t","i","l","s">>,
    active_function |-> <<"a","c","t","i","v","e","_","f","u","n","c","t","i","o","n">>,
    unused_function |-> <<"u","n","u","s","e","d","_","f","u","n","c","t","i","o","n">>,
    active |-> <<"a","c","t","i","v","e">>,
    unused |-> <<"u","n","u","s","e","d">>,
    test |-> <<"t","e","s","t">>,
    A |-> <<"A">>,
    h |-> <<"h">>,
    obj |-> <<"o","b","j">>
  ]

\* the prompts of tests/test_prompt/test_prompt_processor.py
TestPrompts ==
  {
    <<"E","x","t","r","a","c","t"," ","t","h","e"," ","c","a","l","c","u","l","a","t","i","o","n"," ","l","o","g","i","c"," ","f","r","o","m"," ","l","i","n","e","s"," ","5","-","1","0"," ","i","n","t","o"," ","a"," ","n","e","w"," ","m","e","t","h","o","d"," ","c","a","l","l","e","d"," ","c","a","l","c","u","l","a","t","e","_","d","i","s","c","o","u","n","t">>,
    <<"R","e","n","a","m","e"," ","f","u","n","c","t","i","o","n"," ","'","c","a","l","c","'"," ","t","o"," ","'","c","a","l","c","u","l","a","t","e","_","s","u","m","'">>,
    <<"R","e","n","a","m","e"," ","v","a","r","i","a","b","l","e"," ","'","x","'"," ","t","o"," ","'","i","n","p","u","t","_","v","a","l","u","e","'">>,
    <<"I","n","l","i","n","e"," ","t","h","e"," ","v","a","r","i","a","b","l","e"," ","'","t","e","m","p","'">>,
    <<"I","n","l","i","n","e"," ","t","h","e"," ","f","u","n","c","t","i","o","n"," ","'","s","i","m","p","l","e","_","a","d","d","'">>,
    <<"M","o","v","e"," ","m","e","t","h","o","d"," ","'","a","d","d","'"," ","f","r","o","m"," ","C","a","l","c","u","l","a","t","o","r"," ","c","l","a","s","s"," ","t","o"," ","M","a","t","h","U","t","i","l","s"," ","c","l","a","s","s">>,
    <<"R","e","m","o","v","e"," ","u","n","u","s","e","d"," ","f","u","n","c","t","i","o","n","s",":"," ","u","n","u","s","e","d","_","f","u","n","c","t","i","o","n",","," ","o","l","d","_","h","e","l","p","e","r">>,
    <<"D","o"," ","s","o","m","e","t","h","i","n","g"," ","r","a","n","d","o","m"," ","w","i","t","h"," ","c","o","d","e">>,
    <<"T","h","i","s"," ","f","u","n","c","t","i","o","n"," ","i","s"," ","t","o","o"," ","l","o","n","g",","," ","p","l","e","a","s","e"," ","e","x","t","r","a","c","t"," ","s","o","m","e"," ","m","e","t","h","o","d","s">>,
    <<"P","l","e","a","s","e"," ","e","x","t","r","a","c","t"," ","t","h","e"," ","v","a","l","i","d","a","t","i","o","n"," ","l","o","g","i","c">>,
    <<"C","a","n"," ","y","o","u"," ","r","e","n","a","m","e"," ","t","h","i","s"," ","f","u","n","c","t","i","o","n"," ","t","o"," ","s","o","m","e","t","h","i","n","g"," ","m","o","r","e"," ","d","e","s","c","r","i","p","t","i","v","e","?">>,
    <<"T","h","i","s"," ","v","a","r","i","a","b","l","e"," ","n","a","m","e"," ","i","s"," ","u","n","c","l","e","a","r",","," ","l","e","t","'","s"," ","c","h","a","n","g","e"," ","i","t">>,
    <<"R","e","m","o","v","e"," ","t","h","i","s"," ","u","n","u","s","e","d"," ","m","e","t","h","o","d">>,
    <<"M","a","k","e"," ","t","h","i","s"," ","c","o","d","e"," ","b","e","t","t","e","r">>,
    <<"C","o","n","v","e","r","t"," ","t","h","i","s"," ","t","o"," ","a"," ","d","i","f","f","e","r","e","n","t"," ","p","r","o","g","r","a","m","m","i","n","g"," ","l","a","n","g","u","a","g","e">>
  }

\* ------------------------------------------------------------------------
\* The inputs of the model
\* ------------------------------------------------------------------------
\* free prompts: at most MaxWords words; lists of dead functions: at most MaxNames
MaxWords == 2
MaxNames == 2

Sp == <<" ">>
Quoted(x) == <<"'">> \o x \o <<"'">>
RECURSIVE JoinWith(_, _)
JoinWith(parts, sep) ==
  IF parts = <<>> THEN <<>>
  ELSE IF Len(parts) = 1 THEN parts[1]
  ELSE parts[1] \o sep \o JoinWith(Tail(parts), sep)
Words(parts) == JoinWith(parts, Sp)
SeqsUpTo(S, n) == UNION {[1..k -> S] : k \in 1..n}

Idents == {W.calc, W.Calc, W.sum_2, W.x, W.Total}
\* "Rename function 'X' to 'Y'", "Rename variable 'X' to 'Y'"
RenamePrompt(what, X, Y) == Words(<<W.Rename, what, Quoted(X), W.to, Quoted(Y)>>)
RenamePrompts == {RenamePrompt(what, X, Y) : what \in {W.function, W.variable}, X \in Idents, Y \in Idents}

Methods == {W.add, W.Sort}
Classes == {W.Calculator, W.mathUtils, W.Auto, W.B}
Prefixes == {<<>>, W.please \o Sp, Words(<<W.from, W.now, W.on>>) \o Sp}
Suffixes == {<<>>, Sp \o W.please}
\* "Move method 'M' from S class to T class"
MovePhrase(Mn, S, T) ==
  Words(<<W.Move, W.method, Quoted(Mn), W.from, S, W.class, W.to, T, W.class>>)
MovePrompt(pre, Mn, S, T, suf) == pre \o MovePhrase(Mn, S, T) \o suf
MovePrompts ==
  {MovePrompt(pre, Mn, S, T, suf) :
     pre \in Prefixes, Mn \in Methods, S \in Classes, T \in Classes, suf \in Suffixes}

DeadNames == {W.foo, W.Bar, W.old_helper, W.rename_a, W.function_b}
\* "Remove unused functions: n1, n2, ..., nk"
RemovePrompt(names) ==
  Words(<<W.Remove, Str.unused, W.functions \o Str.colon, JoinWith(names, <<",", " ">>)>>)
RemovePrompts == {RemovePrompt(names) : names \in SeqsUpTo(DeadNames, MaxNames)}

LineTexts == {<<"0">>, <<"5">>, <<"1", "0">>}
\* "Extract lines A-B into a method called N", "Extract method N from lines A to B"
ExtractLinesNamePrompt(A, B, N) ==
  Words(<<W.Extract, W.lines, A \o <<"-">> \o B, W.into, W.a, W.method, W.called, N>>)
ExtractNameLinesPrompt(N, A, B) ==
  Words(<<W.Extract, W.method, N, W.from, W.lines, A, W.to, B>>)
ExtractPrompts ==
  {ExtractLinesNamePrompt(A, B, N) : A \in LineTexts, B \in LineTexts, N \in {W.foo, W.Bar}}
  \cup {ExtractNameLinesPrompt(N, A, B) : N \in {W.foo, W.Bar}, A \in LineTexts, B \in LineTexts}

\* "Inline the variable 'X'", "Inline the function 'X'"
InlinePrompts ==
  {Words(<<W.Inline, W.the, what, Quoted(X)>>) : what \in {W.variable, W.function}, X \in Idents}

Vocabulary ==
  {W.make, W.better, W.remake, W.improve, Str.rename, W.function, W.variable,
   Str.extract, W.split, W.unclear, W.relocate, W.convert, W.translate,
   W.code, W.Remove, W.method, Str.unused, W.expand}
\* "Extract the logic", "Extract the validation logic", "Extract the
\* validation calculation logic", ...
ExtractLogicPrompt(kinds) == Words(<<W.Extract, W.the>> \o kinds \o <<W.logic>>)
LogicPrompts ==
  {ExtractLogicPrompt(kinds) : kinds \in SeqsUpTo({W.validation, W.calculation}, 2)}
FreePrompts == {Words(ws) : ws \in SeqsUpTo(Vocabulary, MaxWords)}

\* prompts that a guard rejects although a catalog pattern is in them
GuardedPrompts ==
  {Words(<<W.make, W.the, W.variable, W.name, W.unclear, Str.change>>),
   Words(<<W.translate, Str.rename, W.variable>>),
   RenamePrompt(W.function, W.convert, W.x)}

Prompts ==
  TestPrompts \cup GuardedPrompts \cup RenamePrompts \cup MovePrompts \cup RemovePrompts
  \cup ExtractPrompts \cup LogicPrompts \cup InlinePrompts \cup FreePrompts

\* prompts without the name of what to work on, one for each kind
IntentPrompts ==
  {Str.extract, Words(<<Str.rename, W.function>>), W.unclear,
   Words(<<W.Inline, W.variable>>), Words(<<W.Inline, W.function>>), W.relocate,
   Words(<<W.Remove, Str.unused>>)}
\* the prompts given to the workflow of main.py
WorkflowPrompts ==
  IntentPrompts \cup {MovePhrase(W.add, W.Calculator, W.MathUtils)}
  \cup {MovePhrase(Mn, S, T) : Mn \in Methods, S \in Classes, T \in Classes}

\* requests a caller builds itself (tests/test_prompt/test_prompt_processor.py,
\* test_convert_to_operation)
DirectRequests ==
  {[RefactoringRequest("rename_function") EXCEPT
      !.old_name = Some(W.calc), !.new_name = Some(W.Total)],
   [RefactoringRequest("extract_method") EXCEPT
      !.method_name = Some(W.foo), !.start_line = Some(0), !.end_line = Some(5)],
   [RefactoringRequest("remove_dead_code") EXCEPT !.dead_functions = Some(<<>>)],
   RefactoringRequest("move_method")}

\* ------------------------------------------------------------------------
\* The source texts and the operations of the model
\* ------------------------------------------------------------------------
\* source texts: at most MaxUnits units, a unit being a statement on a line
\* of its own or a def or class with its body
MaxUnits == 2

Add(l, r) == BinOp(l, "+", r)
Mult(l, r) == BinOp(l, "*", r)
Plain(name) == Arg(name, None)
\* the source texts of tests/test_refactor/test_refactoring_engine.py
RenameVariableSource ==
  <<Blank,
    Line(0, DefLine(W.process_data, <<Plain(W.x)>>, <<>>)),
    Line(4, Assign(<<Name(W.y)>>, Mult(Name(W.x), Num(2)))),
    Line(4, Assign(<<Name(W.z)>>, Add(Name(W.y), Num(1)))),
    Line(4, Return(Some(Name(W.z)))),
    Blank>>
RenameFunctionSource ==
  <<Blank,
    Line(0, DefLine(W.calc, <<Plain(W.a), Plain(W.b)>>, <<>>)),
    Line(4, Return(Some(Add(Name(W.a), Name(W.b))))),
    Blank,
    Line(0, DefLine(W.main, <<>>, <<>>)),
    Line(4, Assign(<<Name(W.result)>>, Call(Name(W.calc), <<Num(5), Num(3)>>))),
    Line(4, Return(Some(Name(W.result)))),
    Blank>>
InlineVariableSource ==
  <<Blank,
    Line(0, DefLine(W.calculate, <<>>, <<>>)),
    Line(4, Assign(<<Name(W.temp)>>, Mult(Num(5), Num(3)))),
    Line(4, Assign(<<Name(W.result)>>, Add(Name(W.temp), Num(10)))),
    Line(4, Return(Some(Name(W.result)))),
    Blank>>
InlineFunctionSource ==
  <<Blank,
    Line(0, DefLine(W.simple_add, <<Plain(W.a), Plain(W.b)>>, <<>>)),
    Line(4, Return(Some(Add(Name(W.a), Name(W.b))))),
    Blank,
    Line(0, DefLine(W.calculate, <<>>, <<>>)),
    Line(4, Assign(<<Name(W.x)>>, Call(Name(W.simple_add), <<Num(5), Num(3)>>))),
    Line(4, Return(Some(Mult(Name(W.x), Num(2))))),
    Blank>>
MoveMethodSource ==
  <<Blank,
    Line(0, ClassLine(W.Calculator)),
    Line(4, DefLine(W.add, <<Plain(W.self), Plain(W.a), Plain(W.b)>>, <<>>)),
    Line(8, Return(Some(Add(Name(W.a), Name(W.b))))),
    Blank,
    Line(0, ClassLine(W.MathUtils)),
    Line(4, Pass),
    Blank>>
RemoveDeadCodeSource ==
  <<Blank,
    Line(0, DefLine(W.active_function, <<>>, <<>>)),
    Line(4, Return(Some(StrConst(W.active)))),
    Blank,
    Line(0, DefLine(W.unused_function, <<>>, <<>>)),
    Line(4, Return(Some(StrConst(W.unused)))),
    Blank,
    Line(0, DefLine(W.main, <<>>, <<>>)),
    Line(4, Return(Some(Call(Name(W.active_function), <<>>)))),
    Blank>>
\* test_unsupported_operation, the body on a line of its own
UnsupportedSource ==
  <<Line(0, DefLine(W.test, <<>>, <<>>)), Line(4, Pass)>>
TestSources ==
  {RenameVariableSource, RenameFunctionSource, InlineVariableSource, InlineFunctionSource,
   MoveMethodSource, RemoveDeadCodeSource, UnsupportedSource}
\* a function called twice, with different arguments
TwoCallsSource ==
  <<Line(0, DefLine(W.f, <<Plain(W.a), Plain(W.b)>>, <<>>)),
    Line(4, Return(Some(Add(Name(W.a), Name(W.b))))),
    Line(0, Assign(<<Name(W.y)>>, Call(Name(W.f), <<Name(W.x), Num(3)>>))),
    Line(0, Assign(<<Name(W.z)>>, Call(Name(W.f), <<Num(1), Num(2)>>)))>>
\* "x = 1", "x = x + 2", "y = x": a variable assigned twice
ReassignedSource ==
  <<Line(0, Assign(<<Name(W.x)>>, Num(1))),
    Line(0, Assign(<<Name(W.x)>>, Add(Name(W.x), Num(2)))),
    Line(0, Assign(<<Name(W.y)>>, Name(W.x)))>>
\* "def f(a, b):" with the given body, and the call "y = f(x, 3)"
CalledWithBody(body) ==
  <<Line(0, DefLine(W.f, <<Plain(W.a), Plain(W.b)>>, <<>>))>>
  \o [i \in 1..Len(body) |-> Line(4, body[i])]
  \o <<Line(0, Assign(<<Name(W.y)>>, Call(Name(W.f), <<Name(W.x), Num(3)>>)))>>
\* functions whose body is not one return of a binary operation
OtherBodies ==
  {<<Return(Some(Name(W.a)))>>,
   <<Return(Some(Call(Name(W.g), <<Name(W.a)>>)))>>,
   <<Assign(<<Name(W.x)>>, Name(W.a)), Return(Some(Add(Name(W.x), Name(W.b))))>>,
   <<Return(Some(Add(Name(W.a), Name(W.b)))), Pass>>}
EdgeSources == {ReassignedSource} \cup {CalledWithBody(body) : body \in OtherBodies}

\* "class S:" with the method "def Mn(self): pass" and "x = 1", then
\* "class T: pass"
TwoClassesSource(S, Mn, T) ==
  <<Line(0, ClassLine(S)),
    Line(4, DefLine(Mn, <<Plain(W.self)>>, <<>>)),
    Line(8, Pass),
    Line(4, Assign(<<Name(W.x)>>, Num(1))),
    Line(0, ClassLine(T)),
    Line(4, Pass)>>
\* the source texts given to the workflow of main.py
WorkflowSources ==
  {MoveMethodSource, TwoCallsSource, ReassignedSource}
  \cup {TwoClassesSource(S, Mn, T) : S \in {W.Calculator, W.Auto}, Mn \in Methods, T \in {W.B}}

\* the units the other source texts are put together from; the seventh to
\* the ninth make a text the parser rejects; the last three are
\* "def h(x: x=x): return x.x", "obj.f(f(f(x, 3), f))" and
\* "def main() -> x:" with the body "x = 2", "return x"
Units ==
  {<<Line(0, Assign(<<Name(W.x)>>, Num(1)))>>,
   <<Line(0, Assign(<<Name(W.y)>>, Add(Name(W.x), Num(2))))>>,
   <<Line(0, Expr(Call(Name(W.f), <<Name(W.x), Num(3)>>)))>>,
   <<Line(0, DefLine(W.f, <<Plain(W.a), Plain(W.b)>>, <<>>)),
     Line(4, Return(Some(Add(Name(W.a), Name(W.b)))))>>,
   <<Line(0, ClassLine(W.A)),
     Line(4, DefLine(W.f, <<Plain(W.self)>>, <<>>)),
     Line(8, Pass)>>,
   <<Line(0, ClassLine(W.B)), Line(4, Pass)>>,
   <<Line(0, Junk)>>,
   <<Line(4, Pass)>>,
   <<Line(0, DefLine(W.g, <<>>, <<>>))>>,
   <<Line(0, DefLine(W.h, <<Arg(W.x, Some(Name(W.x)))>>, <<Name(W.x)>>)),
     Line(4, Return(Some(Attribute(Name(W.x), W.x))))>>,
   <<Line(0, Expr(Call(Attribute(Name(W.obj), W.f),
                       <<Call(Name(W.f), <<Call(Name(W.f), <<Name(W.x), Num(3)>>),
                                           Name(W.f)>>)>>)))>>,
   <<Line(0, Returning(DefLine(W.main, <<>>, <<>>), Some(Name(W.x)))),
     Line(4, Assign(<<Name(W.x)>>, Num(2))),
     Line(4, Return(Some(Name(W.x))))>>}
RECURSIVE Flatten(_)
Flatten(us) == IF us = <<>> THEN <<>> ELSE Head(us) \o Flatten(Tail(us))
Sources ==
  TestSources \cup {TwoCallsSource} \cup EdgeSources
  \cup {Flatten(us) : us \in SeqsUpTo(Units, MaxUnits)}

\* operation kinds the engine does not have
UnsupportedTypes == {"unsupported_operation", "rename", "Rename_Function", ""}
\* the operations of tests/test_refactor/test_refactoring_engine.py
TestOperations ==
  {[RefactoringOperation("rename_variable") EXCEPT
      !.old_name = Some(W.x), !.new_name = Some(W.total)],
   [RefactoringOperation("rename_function") EXCEPT
      !.old_name = Some(W.calc), !.new_name = Some(W.g)],
   [RefactoringOperation("inline_variable") EXCEPT !.variable_name = Some(W.temp)],
   [RefactoringOperation("inline_function") EXCEPT !.function_name = Some(W.simple_add)],
   [RefactoringOperation("move_method") EXCEPT
      !.method_name = Some(W.add), !.source_class = Some(W.Calculator),
      !.target_class = Some(W.MathUtils)],
   [RefactoringOperation("remove_dead_code") EXCEPT
      !.dead_functions = Some(<<W.unused_function>>)],
   RefactoringOperation("unsupported_operation")}
\* operations on the names of the units
UnitOperations ==
  {[RefactoringOperation("extract_method") EXCEPT
      !.start_line = Some(s), !.end_line = Some(s + n), !.new_method_name = Some(W.g)] :
     s \in 0..2, n \in 0..1}
  \cup {[RefactoringOperation(t) EXCEPT !.old_name = Some(o), !.new_name = Some(n)] :
          t \in {"rename_variable", "rename_function"}, o \in {W.x, W.f}, n \in {W.total, W.y}}
  \cup {[RefactoringOperation("inline_variable") EXCEPT !.variable_name = Some(W.x)],
        [RefactoringOperation("inline_function") EXCEPT !.function_name = Some(W.f)],
        [RefactoringOperation("move_method") EXCEPT
           !.method_name = Some(W.f), !.source_class = Some(W.A), !.target_class = Some(W.B)],
        [RefactoringOperation("remove_dead_code") EXCEPT !.dead_functions = Some(<<W.f>>)]}
\* operations with nothing but the type, and operations of an unknown type
\* that carry the fields of a known one
BareOperations ==
  {RefactoringOperation(t) :
     t \in {SupportedOperations[i] : i \in 1..Len(SupportedOperations)} \cup UnsupportedTypes}
MistypedOperations ==
  {[op EXCEPT !.type = t] : op \in UnitOperations, t \in {"rename", "Rename_Function"}}
Operations == TestOperations \cup UnitOperations \cup BareOperations \cup MistypedOperations

\* ------------------------------------------------------------------------
\* The state machines: a caller driving the processor, a caller driving
\* the engine
\* ------------------------------------------------------------------------
VARIABLES
  pc,         \* "start", "parsed", "rejected", "converted", "built", "applied",
              \* "validated", "renamed_back", "compared", "refactored"
  prompt,     \* the prompt given to parse_prompt
  request,    \* the RefactoringRequest at hand, None when there is none
  raised,     \* the exception the last call raised, None when it returned
  used,       \* the catalog position of the pattern parse_prompt built from
  via,        \* how the request came to be: "parse_prompt", "direct", ""
  operation,  \* the RefactoringOperation at hand
  code,       \* the source text given to the engine
  result,     \* the text the engine returned, None when there is none
  supported_operations,  \* RefactoringEngine.supported_operations
  valid,      \* what validate_refactoring returned, None when there is none
  calls,      \* the calls under way on one processor and one engine, by caller
  visitors,   \* the state of the VariableInliner of each call
  processor   \* PromptProcessor.operation_patterns and .intent_keywords

vars ==
  <<pc, prompt, request, raised, used, via, operation, code, result, supported_operations,
    valid, calls, visitors, processor>>

\* PromptProcessor.__init__: the two tables
Processor == [operation_patterns |-> operation_patterns, intent_keywords |-> intent_keywords]
\* no call is under way
NoCalls ==
  /\ calls = <<>>
  /\ visitors = <<>>
  /\ processor = Processor

Init ==
  /\ pc = "start"
  /\ prompt \in Prompts
  /\ request = None
  /\ raised = None
  /\ used = <<0, 0>>
  /\ via = ""
  /\ operation = None
  /\ code = <<>>
  /\ result = None
  /\ supported_operations = SupportedOperations
  /\ valid = None
  /\ NoCalls

\* request = processor.parse_prompt(prompt)
ParsePrompt ==
  /\ pc = "start"
  /\ LET r == parse_prompt(prompt)
     IN  /\ request' = r.request
         /\ raised' = r.raised
         /\ used' = r.used
         /\ pc' = IF r.raised = None THEN "parsed" ELSE "rejected"
  /\ via' = "parse_prompt"
  /\ UNCHANGED <<calls, visitors, processor, prompt, operation, code, result, supported_operations, valid>>

\* request = RefactoringRequest(...), built by the caller
BuildRequest ==
  /\ pc = "start"
  /\ \E r \in DirectRequests : request' = Some(r)
  /\ pc' = "parsed"
  /\ via' = "direct"
  /\ UNCHANGED <<calls, visitors, processor, prompt, raised, used, operation, code, result, supported_operations, valid>>

\* operation = processor.convert_to_operation(request)
ConvertToOperation ==
  /\ pc = "parsed"
  /\ operation' = Some(convert_to_operation(Val(request)))
  /\ pc' = "converted"
  /\ UNCHANGED <<calls, visitors, processor, prompt, request, raised, used, via, code, result, supported_operations, valid>>

Next == ParsePrompt \/ BuildRequest \/ ConvertToOperation

Spec == Init /\ [][Next]_vars

\* the engine on its own: engine = RefactoringEngine(), a source text
EngineInit ==
  /\ pc = "start"
  /\ prompt = <<>>
  /\ request = None
  /\ raised = None
  /\ used = <<0, 0>>
  /\ via = ""
  /\ operation = None
  /\ code \in Sources
  /\ result = None
  /\ supported_operations = SupportedOperations
  /\ valid = None
  /\ NoCalls

\* operation = RefactoringOperation(...), built by the caller
BuildOperation ==
  /\ pc = "start"
  /\ \E op \in Operations : operation' = Some(op)
  /\ pc' = "built"
  /\ via' = "direct"
  /\ UNCHANGED <<calls, visitors, processor, prompt, request, raised, used, code, result, supported_operations, valid>>

\* result = engine.apply_refactoring(code, operation)
ApplyRefactoring ==
  /\ pc = "built"
  /\ LET r == apply_refactoring(code, Val(operation), supported_operations)
     IN  /\ result' = r.result
         /\ raised' = r.raised
  /\ pc' = "applied"
  /\ UNCHANGED <<calls, visitors, processor, prompt, request, used, via, operation, code, supported_operations, valid>>

\* ok = engine.validate_refactoring(code, operation)
ValidateRefactoring ==
  /\ pc = "built"
  /\ LET r == validate_refactoring(code, Val(operation))
     IN  /\ valid' = r.value
         /\ raised' = r.raised
  /\ pc' = "validated"
  /\ UNCHANGED <<calls, visitors, processor, prompt, request, used, via, operation, code, result, supported_operations>>

\* the rename the other way round, of the text the rename gave:
\* result = engine.apply_refactoring(result, RefactoringOperation(
\*   type=operation.type, old_name=operation.new_name, new_name=operation.old_name))
RenameBack ==
  /\ pc = "applied"
  /\ Val(operation).type \in {"rename_variable", "rename_function"}
  /\ result # None
  /\ LET back == [RefactoringOperation(Val(operation).type) EXCEPT
                    !.old_name = Val(operation).new_name,
                    !.new_name = Val(operation).old_name]
         r == apply_refactoring(Val(result), back, supported_operations)
     IN  /\ result' = r.result
         /\ raised' = r.raised
  /\ pc' = "renamed_back"
  /\ UNCHANGED <<calls, visitors, processor, prompt, request, used, via, operation, code, supported_operations, valid>>

\* ok = engine.preserve_semantics(code, result), of the text a call returned
PreserveSemantics ==
  /\ pc = "applied"
  /\ result # None
  /\ LET r == preserve_semantics(code, Val(result))
     IN  /\ valid' = r.value
         /\ raised' = r.raised
  /\ pc' = "compared"
  /\ UNCHANGED <<calls, visitors, processor, prompt, request, used, via, operation, code, result, supported_operations>>

EngineNext ==
  BuildOperation \/ ApplyRefactoring \/ ValidateRefactoring \/ RenameBack \/ PreserveSemantics

EngineSpec == EngineInit /\ [][EngineNext]_vars


\* the workflow of PromptAutoRefactor.refactor_code: a prompt and a source
\* text, the processor and then the engine
WorkflowInit ==
  /\ pc = "start"
  /\ prompt \in WorkflowPrompts
  /\ request = None
  /\ raised = None
  /\ used = <<0, 0>>
  /\ via = ""
  /\ operation = None
  /\ code \in WorkflowSources
  /\ result = None
  /\ supported_operations = SupportedOperations
  /\ valid = None
  /\ NoCalls

\* refactored_code = self.engine.apply_refactoring(code, operation), with
\* the operation that convert_to_operation returned
ApplyConverted ==
  /\ pc = "converted"
  /\ LET r == apply_refactoring(code, Val(operation), supported_operations)
     IN  /\ result' = r.result
         /\ raised' = r.raised
  /\ pc' = "refactored"
  /\ UNCHANGED <<calls, visitors, processor, prompt, request, used, via, operation, code, supported_operations, valid>>

WorkflowNext == ParsePrompt \/ ConvertToOperation \/ ApplyConverted

WorkflowSpec == WorkflowInit /\ [][WorkflowNext]_vars

\* ------------------------------------------------------------------------
\* Several callers on one PromptProcessor and one RefactoringEngine
\* ------------------------------------------------------------------------
MaxCallers == 2
Callers == 1..MaxCallers
\* the prompts and the pairs of source text and operation of the callers
ConcurrentPrompts ==
  {RenamePrompt(W.function, W.calc, W.Total), W.code}
ConcurrentApplies ==
  {[code |-> ReassignedSource,
    operation |-> [RefactoringOperation("inline_variable") EXCEPT !.variable_name = Some(W.x)]],
   [code |-> InlineVariableSource,
    operation |-> [RefactoringOperation("inline_variable") EXCEPT !.variable_name = Some(W.temp)]],
   [code |-> <<Line(0, Junk)>>,
    operation |-> [RefactoringOperation("inline_variable") EXCEPT !.variable_name = Some(W.x)]],
   [code |-> TwoCallsSource,
    operation |-> [RefactoringOperation("inline_function") EXCEPT !.function_name = Some(W.f)]],
   [code |-> ReassignedSource, operation |-> RefactoringOperation("unsupported_operation")]}

\* a caller that is in no call
Idle ==
  [pc |-> "idle", method |-> "", prompt |-> <<>>, code |-> <<>>, operation |-> None,
   given |-> <<>>, todo |-> <<>>, done |-> <<>>, out |-> None]
\* VariableInliner.__init__
VisitorInit == [value_node |-> None]
\* every call makes its own VariableInliner: one transformer for all calls
\* would be
Owner_Shared(t) == 1
\* the VariableInliner of the call of caller t: VariableInliner() is made
\* inside the call
Owner(t) == t

ConcurrentInit ==
  /\ pc = "start"
  /\ prompt = <<>>
  /\ request = None
  /\ raised = None
  /\ used = <<0, 0>>
  /\ via = ""
  /\ operation = None
  /\ code = <<>>
  /\ result = None
  /\ supported_operations = SupportedOperations
  /\ valid = None
  /\ calls = [t \in Callers |-> Idle]
  /\ visitors = [t \in Callers |-> VisitorInit]
  /\ processor = Processor

\* the variables of the instances and of the single caller
Instances ==
  <<pc, prompt, request, raised, used, via, operation, code, result, supported_operations,
    valid, processor>>

\* caller t calls processor.parse_prompt(p)
CallParsePrompt(t) ==
  /\ calls[t].pc = "idle"
  /\ \E p \in ConcurrentPrompts :
       calls' = [calls EXCEPT ![t] =
                   [Idle EXCEPT !.pc = "resolving", !.method = "parse_prompt",
                                !.prompt = p, !.given = <<p>>]]
  /\ UNCHANGED <<visitors, Instances>>

\* parse_prompt runs: it reads the two tables of the processor
Resolve(t) ==
  /\ calls[t].pc = "resolving"
  /\ processor = Processor
  /\ LET r == parse_prompt(calls[t].prompt)
     IN  calls' = [calls EXCEPT ![t].pc = "returned",
                                ![t].out = Some([request |-> r.request, raised |-> r.raised])]
  /\ UNCHANGED <<visitors, Instances>>

\* caller t calls engine.apply_refactoring(code, operation)
CallApplyRefactoring(t) ==
  /\ calls[t].pc = "idle"
  /\ \E a \in ConcurrentApplies :
       calls' = [calls EXCEPT ![t] =
                   [Idle EXCEPT !.pc = "dispatching", !.method = "apply_refactoring",
                                !.code = a.code, !.operation = Some(a.operation),
                                !.given = <<a.code, a.operation>>]]
  /\ UNCHANGED <<visitors, Instances>>

\* apply_refactoring looks the kind up in supported_operations and goes to
\* the handler; _inline_variable parses the text and makes its
\* VariableInliner, the other handlers run to their end
Enter(t) ==
  /\ calls[t].pc = "dispatching"
  /\ LET c == calls[t].code
         op == Val(calls[t].operation)
     IN  IF InSeq(supported_operations, op.type) /\ op.type = "inline_variable" /\ parse(c).ok
         THEN /\ calls' = [calls EXCEPT ![t].pc = "visiting", ![t].todo = parse(c).body]
              /\ visitors' = [visitors EXCEPT ![Owner(t)] = VisitorInit]
         ELSE /\ calls' = [calls EXCEPT ![t].pc = "returned",
                                        ![t].out = Some(apply_refactoring(c, op, supported_operations))]
              /\ UNCHANGED visitors
  /\ UNCHANGED Instances

\* the VariableInliner of the call visits the next statement of the tree
Visit(t) ==
  /\ calls[t].pc = "visiting"
  /\ calls[t].todo # <<>>
  /\ LET r == InlineVarBody(<<Head(calls[t].todo)>>, Val(calls[t].operation).variable_name,
                            visitors[Owner(t)].value_node)
     IN  /\ calls' = [calls EXCEPT ![t].todo = Tail(calls[t].todo),
                                   ![t].done = calls[t].done \o r.body]
         /\ visitors' = [visitors EXCEPT ![Owner(t)].value_node = r.value_node]
  /\ UNCHANGED Instances

\* return ast.unparse(transformed): the VariableInliner is no more
Unparse(t) ==
  /\ calls[t].pc = "visiting"
  /\ calls[t].todo = <<>>
  /\ calls' = [calls EXCEPT ![t].pc = "returned",
                            ![t].out = Some(TextResult(unparse(calls[t].done)))]
  /\ visitors' = [visitors EXCEPT ![Owner(t)] = VisitorInit]
  /\ UNCHANGED Instances

\* the caller has its answer and is free for its next call
Take(t) ==
  /\ calls[t].pc = "returned"
  /\ calls' = [calls EXCEPT ![t] = Idle]
  /\ UNCHANGED <<visitors, Instances>>

ConcurrentNext ==
  \E t \in Callers :
    \/ CallParsePrompt(t)
    \/ Resolve(t)
    \/ CallApplyRefactoring(t)
    \/ Enter(t)
    \/ Visit(t)
    \/ Unparse(t)
    \/ Take(t)

ConcurrentSpec == ConcurrentInit /\ [][ConcurrentNext]_vars

\* ------------------------------------------------------------------------
\* Properties of the prompt resolver
\* ------------------------------------------------------------------------
\* parse_prompt has been called with `prompt`
Parsed == via = "parse_prompt"
HasAny(S, text) == \E w \in S : Contains(text, w)
GenericWords == {Str.make, Str.better, Str.improve, Str.optimize}
VerbWords == {Str.extract, Str.rename, Str.inline, Str.move, Str.remove}
ConversionWords == {Str.convert, Str.translate, Str.different_language}
GuardAmbiguous ==
  HasAny(GenericWords, Lower(prompt)) /\ ~HasAny(VerbWords, Lower(prompt))
GuardUnsupported == HasAny(ConversionWords, Lower(prompt))
AmbiguousPromptError == Some([type |-> "ValueError", msg |-> "Ambiguous prompt"])
UnsupportedOperationError ==
  Some([type |-> "NotImplementedError", msg |-> "Language conversion is not supported"])
UnparsablePromptError ==
  Some([type |-> "ValueError", msg |-> "Could not parse the refactoring request"])

\* the catalog positions <<k, j>> whose pattern is found in the lower-cased prompt
CatalogPositions ==
  {kj \in (1..Len(operation_patterns)) \X (1..4) :
     kj[2] <= Len(operation_patterns[kj[1]].patterns)}
Matching ==
  {kj \in CatalogPositions :
     Search(operation_patterns[kj[1]].patterns[kj[2]].re, Lower(prompt)).ok}
Before(a, b) == a[1] < b[1] \/ (a[1] = b[1] /\ a[2] < b[2])

\* C1: a prompt with a generic-improvement word and no concrete verb is
\* rejected with the ambiguous-prompt error and no request, whether or not
\* it also holds a conversion phrase or text that a catalog pattern matches.
C1_AmbiguousPromptRejected ==
  (Parsed /\ GuardAmbiguous) =>
     /\ pc = "rejected"
     /\ raised = AmbiguousPromptError
     /\ request = None
     /\ used = <<0, 0>>
\* an ambiguous prompt in which a catalog pattern is found has been rejected
C1_Witness ==
  /\ Parsed /\ GuardAmbiguous /\ Matching # {}
  /\ raised = AmbiguousPromptError

\* C2: a prompt that passes the ambiguity guard and holds a conversion
\* phrase is rejected with the unsupported-operation error and no request,
\* also when a catalog pattern is found in it.
C2_ConversionRejected ==
  (Parsed /\ ~GuardAmbiguous /\ GuardUnsupported) =>
     /\ pc = "rejected"
     /\ raised = UnsupportedOperationError
     /\ request = None
     /\ used = <<0, 0>>
\* a conversion prompt in which a catalog pattern is found has been rejected
C2_Witness ==
  /\ Parsed /\ ~GuardAmbiguous /\ GuardUnsupported /\ Matching # {}
  /\ raised = UnsupportedOperationError

\* C3: "Rename function 'X' to 'Y'" gives a rename_function request and
\* "Rename variable 'X' to 'Y'" a rename_variable request, with old_name X
\* and new_name Y as written in the prompt and nothing else set.
C3_RenameKeepsNamesAsWritten ==
  \A X \in Idents, Y \in Idents :
    /\ (Parsed /\ prompt = RenamePrompt(W.function, X, Y)) =>
          /\ pc # "rejected"
          /\ request = Some([RefactoringRequest("rename_function") EXCEPT
                               !.old_name = Some(X), !.new_name = Some(Y)])
    /\ (Parsed /\ prompt = RenamePrompt(W.variable, X, Y)) =>
          /\ pc # "rejected"
          /\ request = Some([RefactoringRequest("rename_variable") EXCEPT
                               !.old_name = Some(X), !.new_name = Some(Y)])

\* the groups of the pattern at catalog position kj, found in the
\* lower-cased prompt, are in the fields of request r that the pattern's
\* kind assigns to them
GroupsStored(kj, r) ==
  LET mt == Search(operation_patterns[kj[1]].patterns[kj[2]].re, Lower(prompt))
      g(n) == Group(mt, Lower(prompt), n)
  IN  CASE kj = <<1, 1>> ->
             /\ r.method_name = g(3)
             /\ r.start_line = Some(int(Val(g(1))))
             /\ r.end_line = Some(int(Val(g(2))))
        [] kj = <<1, 2>> ->
             /\ r.method_name = g(1)
             /\ r.start_line = Some(int(Val(g(2))))
             /\ r.end_line = Some(int(Val(g(3))))
        [] kj \in {<<2, 1>>, <<2, 2>>, <<3, 1>>} ->
             r.old_name = g(1) /\ r.new_name = g(2)
        [] kj = <<4, 1>> -> r.variable_name = g(1)
        [] kj = <<5, 1>> -> r.function_name = g(1)
        [] kj = <<6, 1>> ->
             /\ r.method_name = g(1)
             /\ r.source_class # None /\ Some(Lower(Val(r.source_class))) = g(2)
             /\ r.target_class # None /\ Some(Lower(Val(r.target_class))) = g(3)
        [] OTHER -> TRUE

\* C4: when no guard fires and P, declared for kind K, is the first pattern
\* of the catalog found in the lower-cased prompt, parse_prompt returns a
\* request of kind K that holds every group P captured in the field of P's
\* mapping.
C4_MatchedPatternFillsRequest ==
  \A kj \in CatalogPositions :
    (/\ Parsed /\ ~GuardAmbiguous /\ ~GuardUnsupported
     /\ kj \in Matching /\ \A o \in Matching : ~Before(o, kj)) =>
       /\ pc # "rejected"
       /\ request # None
       /\ Val(request).operation_type = operation_patterns[kj[1]].kind
       /\ GroupsStored(kj, Val(request))

\* the order of the kinds that the scan is to follow
KindOrder ==
  <<"extract_method", "rename_function", "rename_variable", "inline_variable",
    "inline_function", "move_method", "remove_dead_code">>
KindPos(K) == CHOOSE i \in 1..Len(KindOrder) : KindOrder[i] = K
\* the patterns declared for kind K
PatternsOf(K) ==
  (CHOOSE e \in Range(operation_patterns) : e.kind = K).patterns
Found(p) == Search(p.re, Lower(prompt)).ok

\* C5: when no guard fires, the request is built from the first pattern
\* found, the kinds taken in the order extract_method, rename_function,
\* rename_variable, inline_variable, inline_function, move_method,
\* remove_dead_code and the patterns of a kind in declared order: no pattern
\* of an earlier kind and no earlier pattern of the same kind is in the
\* text, and a pattern is used whenever one is in the text.
C5_FirstMatchInDeclaredOrder ==
  (Parsed /\ ~GuardAmbiguous /\ ~GuardUnsupported) =>
     IF used = <<0, 0>>
     THEN \A K \in Range(KindOrder) :
            \A j \in 1..Len(PatternsOf(K)) : ~Found(PatternsOf(K)[j])
     ELSE LET K == operation_patterns[used[1]].kind
          IN  /\ Found(PatternsOf(K)[used[2]])
              /\ \A j \in 1..(used[2] - 1) : ~Found(PatternsOf(K)[j])
              /\ \A E \in Range(KindOrder) :
                   KindPos(E) < KindPos(K) =>
                     \A j \in 1..Len(PatternsOf(E)) : ~Found(PatternsOf(E)[j])
              /\ request # None => Val(request).operation_type = K
\* a pattern of a later kind is in the text as well, and the earlier kind won
C5_Witness ==
  /\ Parsed /\ used # <<0, 0>> /\ request # None
  /\ \E kj \in Matching : kj[1] > used[1]

\* the kinds one of whose keywords is in the lower-cased prompt, by their
\* position in the keyword table
IntentPositions ==
  {k \in 1..Len(intent_keywords) :
     HasAny(Range(intent_keywords[k].keywords), Lower(prompt))}
\* C6: when no guard fires and no pattern is found, the request holds only
\* the kind of the first keyword-table entry with a keyword in the text; when
\* there is no such entry the call fails with the unparsable-prompt error.
C6_FallbackIntent ==
  (Parsed /\ ~GuardAmbiguous /\ ~GuardUnsupported /\ Matching = {}) =>
     IF IntentPositions = {}
     THEN pc = "rejected" /\ raised = UnparsablePromptError /\ request = None
     ELSE LET k == CHOOSE i \in IntentPositions : \A o \in IntentPositions : i <= o
          IN  /\ pc # "rejected"
              /\ raised = None
              /\ request = Some(RefactoringRequest(intent_keywords[k].kind))
\* keywords of two kinds are in the text and the first kind of the table won
C6_Witness ==
  /\ Parsed /\ ~GuardAmbiguous /\ ~GuardUnsupported /\ Matching = {}
  /\ Cardinality(IntentPositions) >= 2
  /\ request # None

\* C7: convert_to_operation copies every field of the request to the field
\* of the same name (method_name to new_method_name); what is set stays set
\* with its value, what is unset stays unset.
C7_ConvertCopiesEveryField ==
  (request # None /\ operation # None) =>
     LET r == Val(request)
         op == Val(operation)
     IN  /\ op.type = r.operation_type
         /\ op.new_method_name = r.method_name
         /\ op.start_line = r.start_line
         /\ op.end_line = r.end_line
         /\ op.old_name = r.old_name
         /\ op.new_name = r.new_name
         /\ op.variable_name = r.variable_name
         /\ op.function_name = r.function_name
         /\ op.source_class = r.source_class
         /\ op.target_class = r.target_class
         /\ op.dead_functions = r.dead_functions
         /\ op.target = None
         /\ op.method_name = None

\* C8: "Move method 'M' from S class to T class", whatever precedes or
\* follows it, gives a move_method request with method_name M, source_class
\* S and target_class T in the case written.
C8_MoveMethodClassesAsWritten ==
  \A pre \in Prefixes, Mn \in Methods, S \in Classes, T \in Classes, suf \in Suffixes :
    (Parsed /\ prompt = MovePrompt(pre, Mn, S, T, suf)) =>
       /\ pc # "rejected"
       /\ request = Some([RefactoringRequest("move_method") EXCEPT
                            !.method_name = Some(Mn),
                            !.source_class = Some(S),
                            !.target_class = Some(T)])

\* C9: "Remove unused functions: n1, ..., nk" gives a remove_dead_code
\* request whose dead_functions are n1..nk, in that order and nothing else.
C9_DeadFunctionsAsListed ==
  \A names \in SeqsUpTo(DeadNames, MaxNames) :
    (Parsed /\ prompt = RemovePrompt(names)) =>
       /\ pc # "rejected"
       /\ request = Some([RefactoringRequest("remove_dead_code") EXCEPT
                            !.dead_functions = Some(names)])

\* ------------------------------------------------------------------------
\* The engine's contract
\* ------------------------------------------------------------------------
NotImplemented(r) == r # None /\ Val(r).type = "NotImplementedError"
SevenKinds ==
  {"extract_method", "rename_variable", "rename_function", "inline_variable",
   "inline_function", "move_method", "remove_dead_code"}
\* the call at hand is one with an operation of none of the seven kinds
UnsupportedCall == operation # None /\ Val(operation).type \notin SevenKinds

\* C10: a call of apply_refactoring with an operation whose type is none of
\* the seven supported kinds raises NotImplementedError and returns no
\* text, whether or not the source text parses, and the source text, the
\* operation and the engine's supported_operations are after the call what
\* they were before it.
C10_UnsupportedKindRaisesUntouched ==
  [][(pc = "built" /\ pc' = "applied" /\ UnsupportedCall)
       => /\ NotImplemented(raised')
          /\ result' = None
          /\ code' = code
          /\ operation' = operation
          /\ supported_operations' = supported_operations]_vars
\* an operation of an unknown kind was applied to a text the parser rejects
C10_Witness ==
  /\ pc = "applied"
  /\ UnsupportedCall
  /\ ~parse(code).ok
  /\ NotImplemented(raised)

\* ------------------------------------------------------------------------
\* The seven handlers
\* ------------------------------------------------------------------------
Raises(r, type) == r # None /\ Val(r).type = type
\* apply_refactoring was called with an operation of the kind
Applied(kind) == pc = "applied" /\ operation # None /\ Val(operation).type = kind
Field(f) == Val(operation)[f]

\* C11: for each of the seven supported kinds, extract_method included, a
\* call of apply_refactoring on a source text that does not parse raises
\* SyntaxError and returns no text.
C11_MalformedSourceRaisesSyntaxError ==
  (pc = "applied" /\ Val(operation).type \in SevenKinds /\ ~parse(code).ok)
    => Raises(raised, "SyntaxError") /\ result = None

\* the identifiers of a tree in the order of the text, each with the place
\* it stands in: the name of a def or a class, a parameter, an attribute, a
\* name that is loaded or stored ("callee" when it is what a call calls)
RECURSIVE ExprIdents(_)
RECURSIVE ExprsIdents(_)
ExprIdents(x) ==
  CASE x.e = "Name" -> <<<<"name", x.id>>>>
    [] x.e = "BinOp" -> ExprIdents(x.left) \o ExprIdents(x.right)
    [] x.e = "Call" ->
         (IF x.func.e = "Name" THEN <<<<"callee", x.func.id>>>> ELSE ExprIdents(x.func))
         \o ExprsIdents(x.args)
    [] x.e = "Attribute" -> ExprIdents(x.value) \o <<<<"attr", x.attr>>>>
    [] OTHER -> <<>>
ExprsIdents(xs) ==
  IF xs = <<>> THEN <<>> ELSE ExprIdents(Head(xs)) \o ExprsIdents(Tail(xs))
RECURSIVE ArgsIdents(_)
ArgsIdents(args) ==
  IF args = <<>> THEN <<>>
  ELSE <<<<"arg", Head(args).arg>>>> \o ExprsIdents(Head(args).annotation)
       \o ArgsIdents(Tail(args))
RECURSIVE BodyIdents(_)
StmtIdents(s) ==
  CASE s.t = "FunctionDef" ->
         <<<<"def", s.name>>>> \o ArgsIdents(s.args) \o ExprsIdents(s.defaults)
         \o ExprsIdents(s.returns) \o BodyIdents(s.body)
    [] s.t = "ClassDef" -> <<<<"class", s.name>>>> \o BodyIdents(s.body)
    [] s.t = "Assign" -> ExprsIdents(s.targets) \o ExprIdents(s.value)
    [] s.t = "Return" -> ExprsIdents(s.value)
    [] s.t = "Expr" -> ExprIdents(s.value)
    [] OTHER -> <<>>
BodyIdents(body) ==
  IF body = <<>> THEN <<>> ELSE StmtIdents(Head(body)) \o BodyIdents(Tail(body))
\* the identifiers with every one for which Hit holds replaced by new
Replaced(ids, Hit(_), new) ==
  [i \in 1..Len(ids) |-> IF Hit(ids[i]) THEN <<ids[i][1], new>> ELSE ids[i]]
\* a rename with both names given, on a text that parses
RenameCall(kind) ==
  /\ Applied(kind)
  /\ Field("old_name") # None
  /\ Field("new_name") # None
  /\ parse(code).ok
ResultTree == parse(Val(result))

\* C12: rename_variable gives the text whose tree is that of the source with
\* every name (loaded or stored) and every parameter equal to old_name
\* replaced by new_name, in the annotations and the defaults of parameters
\* too, and every other identifier (the names of defs and classes, the
\* attributes) as it was; so no name or parameter old_name is left.
C12_RenameVariableEverywhere ==
  RenameCall("rename_variable")
    => /\ result # None
       /\ ResultTree.ok
       /\ LET IsVariable(id) ==
                /\ id[1] \in {"name", "callee", "arg"}
                /\ Some(id[2]) = Field("old_name")
          IN  BodyIdents(ResultTree.body)
                = Replaced(BodyIdents(parse(code).body), IsVariable, Val(Field("new_name")))

Has(ids, id) == \E i \in 1..Len(ids) : ids[i] = id
\* a call of the bare name inside the arguments of another call of it
RECURSIVE HasNestedCall(_, _, _)
HasNestedCall(x, name, inside) ==
  CASE x.e = "Call" ->
         \/ inside /\ x.func = Name(name)
         \/ HasNestedCall(x.func, name, inside)
         \/ \E i \in 1..Len(x.args) :
              HasNestedCall(x.args[i], name, inside \/ x.func = Name(name))
    [] x.e = "BinOp" ->
         HasNestedCall(x.left, name, inside) \/ HasNestedCall(x.right, name, inside)
    [] x.e = "Attribute" -> HasNestedCall(x.value, name, inside)
    [] OTHER -> FALSE

\* C13: rename_function gives the text whose tree is that of the source with
\* the name of every def named old_name and the callee of every call of the
\* bare name old_name replaced by new_name, at any depth; attributes (so
\* calls obj.old_name(...)) and names that are not the callee of a call are
\* as they were, and so is every other identifier.
C13_RenameFunctionDefsAndCalls ==
  RenameCall("rename_function")
    => /\ result # None
       /\ ResultTree.ok
       /\ LET IsFunction(id) ==
                /\ id[1] \in {"def", "callee"}
                /\ Some(id[2]) = Field("old_name")
          IN  BodyIdents(ResultTree.body)
                = Replaced(BodyIdents(parse(code).body), IsFunction, Val(Field("new_name")))
\* a def f and "obj.f(f(f(x, 3), f))" were renamed: the def and both calls
\* of f have the new name, the attribute and the argument f have not
C13_Witness ==
  /\ RenameCall("rename_function")
  /\ Field("old_name") = Some(W.f)
  /\ Has(BodyIdents(parse(code).body), <<"def", W.f>>)
  /\ \E i \in 1..Len(parse(code).body) :
        /\ parse(code).body[i].t = "Expr"
        /\ HasNestedCall(parse(code).body[i].value, W.f, FALSE)
  /\ result # None
  /\ Has(BodyIdents(ResultTree.body), <<"def", Val(Field("new_name"))>>)
  /\ Has(BodyIdents(ResultTree.body), <<"attr", W.f>>)
  /\ Has(BodyIdents(ResultTree.body), <<"name", W.f>>)
  /\ ~Has(BodyIdents(ResultTree.body), <<"callee", W.f>>)

\* the rename and the rename back were both applied, both names given
RenamedBack ==
  /\ pc = "renamed_back"
  /\ Field("old_name") # None
  /\ Field("new_name") # None
Occurs(name, body) == \E i \in 1..Len(BodyIdents(body)) : BodyIdents(body)[i][2] = name

\* C14: for rename_variable and for rename_function, the rename of old_name
\* to new_name followed by the rename of new_name to old_name of the result
\* gives a text whose tree is equal to the tree of the source, for every
\* source in which new_name does not occur.
C14_RenameRoundTrip ==
  (RenamedBack /\ ~Occurs(Val(Field("new_name")), parse(code).body))
    => /\ result # None
       /\ ResultTree.ok
       /\ ResultTree.body = parse(code).body
\* a variable that is a parameter, a default, a loaded and a stored name of
\* the source was renamed and renamed back
C14_Witness ==
  /\ RenamedBack
  /\ Val(operation).type = "rename_variable"
  /\ ~Occurs(Val(Field("new_name")), parse(code).body)
  /\ Has(BodyIdents(parse(code).body), <<"arg", Val(Field("old_name"))>>)
  /\ Has(BodyIdents(parse(code).body), <<"name", Val(Field("old_name"))>>)
  /\ \E i \in 1..Len(parse(code).body) :
       /\ parse(code).body[i].t = "Assign"
       /\ parse(code).body[i].targets = <<Name(Val(Field("old_name")))>>
  /\ result # None
  /\ ResultTree.body = parse(code).body

\* inline_variable as stated: the text is gone through in the order it is
\* written, the head of a def (parameters, defaults, the annotation of what
\* it returns) before its body; the first assignment with the variable as
\* its single target is left out, and from there on a load of the variable
\* is the assignment's right-hand side
IsAssignmentTo(s, var) ==
  s.t = "Assign" /\ Len(s.targets) = 1 /\ s.targets[1].e = "Name" /\ Some(s.targets[1].id) = var
RECURSIVE InlinedInTextOrder(_, _, _)
InlinedStmt(s, var, value) ==
  CASE s.t = "Assign" ->
         IF IsAssignmentTo(s, var) /\ value = None
         THEN [body |-> <<>>, value |-> Some(s.value)]
         ELSE [body |-> <<Assign([i \in 1..Len(s.targets) |->
                                    InlineVarTarget(s.targets[i], var, value)],
                                 InlineVarExpr(s.value, var, value))>>,
               value |-> value]
    [] s.t = "FunctionDef" ->
         [body |-> <<Returning(
                       FunctionDef(s.name,
                         [i \in 1..Len(s.args) |->
                            Arg(s.args[i].arg,
                                [j \in 1..Len(s.args[i].annotation) |->
                                   InlineVarExpr(s.args[i].annotation[j], var, value)])],
                         [i \in 1..Len(s.defaults) |-> InlineVarExpr(s.defaults[i], var, value)],
                         InlinedInTextOrder(s.body, var, value).body),
                       [i \in 1..Len(s.returns) |-> InlineVarExpr(s.returns[i], var, value)])>>,
          value |-> InlinedInTextOrder(s.body, var, value).value]
    [] s.t = "ClassDef" ->
         [body |-> <<ClassDef(s.name, InlinedInTextOrder(s.body, var, value).body)>>,
          value |-> InlinedInTextOrder(s.body, var, value).value]
    [] s.t = "Return" ->
         [body |-> <<Return([i \in 1..Len(s.value) |-> InlineVarExpr(s.value[i], var, value)])>>,
          value |-> value]
    [] s.t = "Expr" -> [body |-> <<Expr(InlineVarExpr(s.value, var, value))>>, value |-> value]
    [] OTHER -> [body |-> <<s>>, value |-> value]
InlinedInTextOrder(body, var, value) ==
  IF body = <<>> THEN [body |-> <<>>, value |-> value]
  ELSE [body |-> InlinedStmt(Head(body), var, value).body
                 \o InlinedInTextOrder(Tail(body), var,
                                       InlinedStmt(Head(body), var, value).value).body,
        value |-> InlinedInTextOrder(Tail(body), var,
                                     InlinedStmt(Head(body), var, value).value).value]

\* C15: inline_variable leaves out the first assignment, in the order of the
\* text, whose single target is variable_name and puts that assignment's
\* right-hand side in the place of every load of variable_name after it;
\* the loads before it and everything else are as they were.
C15_InlineVariableFirstAssignment ==
  (Applied("inline_variable") /\ Field("variable_name") # None /\ parse(code).ok)
    => /\ result # None
       /\ Val(result)
            = unparse(InlinedInTextOrder(parse(code).body, Field("variable_name"), None).body)

\* the defs named name, wherever they are
RECURSIVE DefsNamed(_, _)
DefsNamed(body, name) ==
  IF body = <<>> THEN <<>>
  ELSE (CASE Head(body).t = "FunctionDef" ->
               (IF Head(body).name = name THEN <<Head(body)>> ELSE <<>>)
               \o DefsNamed(Head(body).body, name)
          [] Head(body).t = "ClassDef" -> DefsNamed(Head(body).body, name)
          [] OTHER -> <<>>)
       \o DefsNamed(Tail(body), name)
\* "def f(p, q): return p op q", the operands being the two parameters
IsBinaryFunction(def) ==
  /\ Len(def.args) = 2
  /\ def.args[1].arg # def.args[2].arg
  /\ Len(def.body) = 1
  /\ def.body[1].t = "Return"
  /\ def.body[1].value # None
  /\ Val(def.body[1].value).e = "BinOp"
  /\ \A operand \in {Val(def.body[1].value).left, Val(def.body[1].value).right} :
       operand.e = "Name" /\ operand.id \in {def.args[1].arg, def.args[2].arg}
\* every call f(a1, a2) as the binary expression of def, the arguments of
\* the call in the place of the parameters
RECURSIVE Expanded(_, _)
Expanded(x, def) ==
  CASE x.e = "Call" ->
         IF x.func = Name(def.name) /\ Len(x.args) = 2
         THEN BinOp(
                Expanded(x.args[IF Val(def.body[1].value).left.id = def.args[1].arg
                                THEN 1 ELSE 2], def),
                Val(def.body[1].value).op,
                Expanded(x.args[IF Val(def.body[1].value).right.id = def.args[1].arg
                                THEN 1 ELSE 2], def))
         ELSE Call(Expanded(x.func, def), [i \in 1..Len(x.args) |-> Expanded(x.args[i], def)])
    [] x.e = "BinOp" -> BinOp(Expanded(x.left, def), x.op, Expanded(x.right, def))
    [] x.e = "Attribute" -> Attribute(Expanded(x.value, def), x.attr)
    [] OTHER -> x
\* the statements of body with the calls in every expression so replaced
RECURSIVE ExpandedBody(_, _)
ExpandedBody(body, def) ==
  [k \in 1..Len(body) |->
     CASE body[k].t = "FunctionDef" ->
            Returning(
              FunctionDef(body[k].name,
                [i \in 1..Len(body[k].args) |->
                   Arg(body[k].args[i].arg,
                       [j \in 1..Len(body[k].args[i].annotation) |->
                          Expanded(body[k].args[i].annotation[j], def)])],
                [i \in 1..Len(body[k].defaults) |-> Expanded(body[k].defaults[i], def)],
                ExpandedBody(body[k].body, def)),
              [i \in 1..Len(body[k].returns) |-> Expanded(body[k].returns[i], def)])
       [] body[k].t = "ClassDef" -> ClassDef(body[k].name, ExpandedBody(body[k].body, def))
       [] body[k].t = "Assign" ->
            Assign([i \in 1..Len(body[k].targets) |-> Expanded(body[k].targets[i], def)], Expanded(body[k].value, def))
       [] body[k].t = "Return" -> Return([i \in 1..Len(body[k].value) |-> Expanded(body[k].value[i], def)])
       [] body[k].t = "Expr" -> Expr(Expanded(body[k].value, def))
       [] OTHER -> body[k]]
\* inline_function was called for a function the source defines once, at
\* the top level, as such a binary function
InlineBinaryFunction ==
  /\ Applied("inline_function")
  /\ Field("function_name") # None
  /\ parse(code).ok
  /\ Len(DefsNamed(parse(code).body, Val(Field("function_name")))) = 1
  /\ \E i \in 1..Len(parse(code).body) :
       /\ parse(code).body[i].t = "FunctionDef"
       /\ parse(code).body[i].name = Val(Field("function_name"))
       /\ IsBinaryFunction(parse(code).body[i])
TheFunction == DefsNamed(parse(code).body, Val(Field("function_name")))[1]

\* C16: for a function f whose body is the one statement "return p op q"
\* over its two parameters, inline_function gives the source without the
\* definition of f and with every call f(a1, a2) replaced by the binary
\* expression that has the arguments of that very call in the place of the
\* parameters, at each call on its own, also when f is called several times
\* with different arguments.
C16_InlineFunctionEachCallItsArguments ==
  InlineBinaryFunction
    => /\ result # None
       /\ LET NotTheFunction(s) == s # TheFunction
          IN  Val(result)
                = unparse(ExpandedBody(SelectSeq(parse(code).body, NotTheFunction), TheFunction))

\* extract_method was called with a name and with lines s..e of the text
ExtractLines ==
  /\ Applied("extract_method")
  /\ Field("start_line") # None
  /\ Field("end_line") # None
  /\ Field("new_method_name") # None
  /\ 1 <= Val(Field("start_line"))
  /\ Val(Field("start_line")) <= Val(Field("end_line"))
  /\ Val(Field("end_line")) <= Len(code)
\* the k-th of the lines s..e, and the line the result has in its place
SourceLine(k) == code[Val(Field("start_line")) + k - 1]
BodyLine(k) == Val(result)[1 + k]
LinesExtracted == Val(Field("end_line")) - Val(Field("start_line")) + 1

\* C17: extract_method with 1 <= s <= e <= number of lines gives a text that
\* starts with "def <new_method_name>(item_price):", then has the lines
\* s..e of the source, all of them, in their order and as they are written
\* (the statement of each line, and the lines indented against each other
\* as in the source), then "return discounted_price".
C17_ExtractedLinesVerbatim ==
  ExtractLines
    => /\ result # None
       /\ Len(Val(result)) >= LinesExtracted + 2
       /\ Val(result)[1]
            = Line(0, DefLine(Val(Field("new_method_name")), <<Arg(Str.item_price, None)>>, <<>>))
       /\ Val(result)[LinesExtracted + 2] = Line(4, Return(Some(Name(Str.discounted_price))))
       /\ \A k \in 1..LinesExtracted : BodyLine(k).s = SourceLine(k).s
       /\ \A j, k \in 1..LinesExtracted :
            ~IsBlank(SourceLine(j)) /\ ~IsBlank(SourceLine(k))
              => BodyLine(j).indent - BodyLine(k).indent
                   = SourceLine(j).indent - SourceLine(k).indent

IsClassNamed(s, name) == s.t = "ClassDef" /\ Some(s.name) = name
ClassesNamed(body, name) ==
  LET Named(s) == IsClassNamed(s, name)
  IN  SelectSeq(body, Named)
MethodsNamed(class, name) ==
  LET Named(item) == IsMethodNamed(item, name)
  IN  SelectSeq(class.body, Named)
\* move_method was called with its three names, for a source that has one
\* class source_class, with one method method_name, and one other class
\* target_class, both at the top level
MoveBetweenClasses ==
  /\ Applied("move_method")
  /\ Field("method_name") # None
  /\ Field("source_class") # None
  /\ Field("target_class") # None
  /\ Field("source_class") # Field("target_class")
  /\ parse(code).ok
  /\ Len(ClassesNamed(parse(code).body, Field("source_class"))) = 1
  /\ Len(ClassesNamed(parse(code).body, Field("target_class"))) = 1
  /\ Len(MethodsNamed(ClassesNamed(parse(code).body, Field("source_class"))[1],
                      Field("method_name"))) = 1
TheMethod ==
  MethodsNamed(ClassesNamed(parse(code).body, Field("source_class"))[1],
               Field("method_name"))[1]
\* the tree with the method out of the source class and last in the target
\* class
MethodMoved(body) ==
  LET NotTheMethod(item) == item # TheMethod
  IN  [i \in 1..Len(body) |->
         IF IsClassNamed(body[i], Field("source_class"))
         THEN ClassDef(body[i].name, SelectSeq(body[i].body, NotTheMethod))
         ELSE IF IsClassNamed(body[i], Field("target_class"))
         THEN ClassDef(body[i].name, Append(body[i].body, TheMethod))
         ELSE body[i]]

\* C18: for a source with a class source_class that defines method_name and
\* another class target_class, whichever of the two classes comes first,
\* move_method gives the source with the method out of source_class and
\* last in target_class and everything else as it was: the method is
\* neither lost nor there twice.
C18_MoveMethodEitherOrder ==
  MoveBetweenClasses
    => /\ result # None
       /\ Val(result) = unparse(MethodMoved(parse(code).body))

\* remove_dead_code was called with a list of names, on a text that parses
RemoveListed ==
  /\ Applied("remove_dead_code")
  /\ Field("dead_functions") # None
  /\ parse(code).ok
\* the statements of the top level but for the defs named in the list
TopLevelRemoved(body, dead) ==
  LET Kept(s) == ~(s.t = "FunctionDef" /\ InSeq(dead, s.name))
  IN  SelectSeq(body, Kept)

\* C19: remove_dead_code gives the source without the defs of the top level
\* whose name is in dead_functions, and with everything else as it was:
\* the other defs of the top level, the other statements, and every method
\* and every def inside a def, also one whose name is in the list.
C19_RemovesTopLevelDefsOnly ==
  RemoveListed
    => /\ result # None
       /\ Val(result) = unparse(TopLevelRemoved(parse(code).body, Val(Field("dead_functions"))))

Validated == pc = "validated" /\ operation # None
IsRename == Val(operation).type \in {"rename_function", "rename_variable"}

\* C20: validate_refactoring returns a boolean for every source text and
\* every operation, also one whose optional fields are unset, and raises
\* nothing: FALSE when the source does not parse; for rename_function and
\* rename_variable on a source that parses, TRUE exactly when old_name is
\* in the raw text; TRUE for every other kind on a source that parses.
C20_ValidateReturnsBoolean ==
  Validated
    => /\ raised = None
       /\ valid \in {Some(TRUE), Some(FALSE)}
       /\ ~parse(code).ok => valid = Some(FALSE)
       /\ (parse(code).ok /\ IsRename /\ Field("old_name") # None)
            => valid = Some(Contains(Text(code), Val(Field("old_name"))))
       /\ (parse(code).ok /\ ~IsRename) => valid = Some(TRUE)

\* ------------------------------------------------------------------------
\* Properties of the resolver's extract_method requests, of the engine's
\* handlers on their edge cases, and of the two components together
\* ------------------------------------------------------------------------
ExtractNames == {W.foo, W.Bar}
\* the request of an extraction of lines A..B as N
NamedRange(N, A, B) ==
  /\ pc # "rejected"
  /\ raised = None
  /\ request # None
  /\ Val(request).operation_type = "extract_method"
  /\ Val(request).method_name = Some(N)
  /\ Val(request).start_line = Some(IntOf(A))
  /\ Val(request).end_line = Some(IntOf(B))

\* C22: an extract_method prompt that gives a line range A-B and a method
\* name N yields a request with method_name N, start_line A and end_line B
\* as integers, whether the range precedes the name ("Extract lines A-B
\* into a method called N") or the name precedes the range ("Extract method
\* N from lines A to B").
C22_ExtractRangeAndNameEitherOrder ==
  \A N \in ExtractNames, A \in LineTexts, B \in LineTexts :
    (Parsed /\ prompt \in {ExtractLinesNamePrompt(A, B, N),
                           ExtractNameLinesPrompt(N, A, B)}) =>
       NamedRange(N, A, B)

\* the request was built from an extract_method pattern that has no groups
NoNameNoLines ==
  /\ Parsed /\ used[1] = 1
  /\ operation_patterns[1].kind = "extract_method"
  /\ operation_patterns[1].patterns[used[2]].groups = 0
DefaultNames == {Str.validate, Str.calculate, Str.extracted_method}
DefaultNameOf(text) ==
  IF Contains(text, Str.validation) THEN Str.validate
  ELSE IF Contains(text, Str.calculation) THEN Str.calculate
  ELSE Str.extracted_method
\* parse_prompt(p) is built from a pattern without groups and names the method d
ProducesDefault(p, d) ==
  \E r \in {parse_prompt(p)} :
    /\ r.used[1] = 1
    /\ operation_patterns[1].patterns[r.used[2]].groups = 0
    /\ r.request # None
    /\ Val(r.request).method_name = Some(d)
\* the request of an extract_method match without name and lines
DefaultNamed ==
  NoNameNoLines =>
    /\ request # None /\ raised = None
    /\ Val(request).operation_type = "extract_method"
    /\ Val(request).start_line = None
    /\ Val(request).end_line = None
    /\ Val(request).method_name = Some(DefaultNameOf(Lower(prompt)))

\* C23: an extract_method match that captures no method name and no line
\* numbers gives a request without start_line and end_line whose
\* method_name is 'validate' when the lower-cased prompt contains
\* 'validation', else 'calculate' when it contains 'calculation', else
\* 'extracted_method'; and each of the three names is produced by some prompt.
C23_ExtractDefaultNames ==
  /\ DefaultNamed
  /\ \A d \in DefaultNames : \E p \in Prompts : ProducesDefault(p, d)

\* the assignments to var of a body, those of the bodies of its defs and
\* classes too, in the order of the text
RECURSIVE AssignmentsTo(_, _)
AssignmentsTo(body, var) ==
  IF body = <<>> THEN <<>>
  ELSE LET s == Head(body)
       IN  (CASE s.t = "Assign" -> IF IsAssignmentTo(s, var) THEN <<s>> ELSE <<>>
              [] s.t \in {"FunctionDef", "ClassDef"} -> AssignmentsTo(s.body, var)
              [] OTHER -> <<>>)
           \o AssignmentsTo(Tail(body), var)
\* the identifiers of a body in the order of the text, an assignment to var
\* standing as one mark
RECURSIVE MarkedIdents(_, _)
MarkedIdents(body, var) ==
  IF body = <<>> THEN <<>>
  ELSE LET s == Head(body)
       IN  (CASE s.t = "Assign" /\ IsAssignmentTo(s, var) -> <<<<"assigned", Val(var)>>>>
              [] s.t = "FunctionDef" ->
                   <<<<"def", s.name>>>> \o ArgsIdents(s.args) \o ExprsIdents(s.defaults)
                   \o ExprsIdents(s.returns) \o MarkedIdents(s.body, var)
              [] s.t = "ClassDef" -> <<<<"class", s.name>>>> \o MarkedIdents(s.body, var)
              [] OTHER -> StmtIdents(s))
           \o MarkedIdents(Tail(body), var)
\* no load of var stands after an assignment to var
NoLoadAfterAssignment(body, var) ==
  LET ids == MarkedIdents(body, var)
  IN  \A i \in 1..Len(ids), j \in 1..Len(ids) :
        (i < j /\ ids[i] = <<"assigned", Val(var)>>) =>
           ids[j] \notin {<<"name", Val(var)>>, <<"callee", Val(var)>>}
\* inline_variable has returned text for a text that assigns the variable
InlinedAssigned ==
  /\ Applied("inline_variable") /\ Field("variable_name") # None
  /\ parse(code).ok /\ result # None
  /\ AssignmentsTo(parse(code).body, Field("variable_name")) # <<>>

\* C25: inline_variable takes only the first assignment to variable_name as
\* the definition: every later assignment to variable_name is in the output
\* as it was, its target and its right-hand side not rewritten, and a load
\* after such an assignment is replaced by the first assignment's expression.
C25_LaterAssignmentsUntouched ==
  InlinedAssigned =>
    LET var == Field("variable_name")
        assigned == AssignmentsTo(parse(code).body, var)
    IN  /\ ResultTree.ok
        /\ AssignmentsTo(ResultTree.body, var) = Tail(assigned)
        /\ ExprIdents(assigned[1].value) = <<>> =>
             NoLoadAfterAssignment(ResultTree.body, var)

\* a def whose body is more than one statement, or one statement that is
\* not the return of a binary operation
HasOtherBody(def) ==
  \/ Len(def.body) > 1
  \/ ~(/\ Len(def.body) = 1
       /\ def.body[1].t = "Return"
       /\ def.body[1].value # None
       /\ Val(def.body[1].value).e = "BinOp")
\* inline_function was called for a function the source defines once, at
\* the top level, with such a body
InlineOtherFunction ==
  /\ Applied("inline_function")
  /\ Field("function_name") # None
  /\ parse(code).ok
  /\ Len(DefsNamed(parse(code).body, Val(Field("function_name")))) = 1
  /\ \E i \in 1..Len(parse(code).body) :
       /\ parse(code).body[i].t = "FunctionDef"
       /\ parse(code).body[i].name = Val(Field("function_name"))
       /\ HasOtherBody(parse(code).body[i])
IsTheFunction(s) == s.t = "FunctionDef" /\ Some(s.name) = Field("function_name")
NotTheFunction(s) == ~IsTheFunction(s)

\* C26: inline_function, for a function whose body is more than one
\* statement or whose single return is not of a binary operation, deletes
\* the definition, leaves every call of the function as it was and does not
\* raise.
C26_OtherBodiesOnlyDeleted ==
  InlineOtherFunction =>
    /\ raised = None
    /\ result # None
    /\ ResultTree.ok
    /\ ResultTree.body = SelectSeq(parse(code).body, NotTheFunction)

\* the call that stands for the extracted lines
CallOfNewMethod ==
  Assign(<<Name(Str.discounted_price)>>,
         Call(Name(Val(Field("new_method_name"))), <<Attribute(Name(Str.item), Str.price)>>))
\* the lines the new definition takes in the result: the def, the extracted
\* lines, the return and an empty line
DefinitionLines == LinesExtracted + 3
\* the result from its line i on, and the source from its line i on
ResultFrom(i) == SubSeq(Val(result), i, Len(Val(result)))
CodeFrom(i) == SubSeq(code, i, Len(code))

\* C27: extract_method of the lines s..e (1 <= s <= e <= number of lines)
\* gives the new function definition and after it the source text with the
\* lines s..e replaced by one line, the call "discounted_price =
\* <new_method_name>(item.price)"; the lines before s and the lines after e
\* are as they were, in their order.
C27_ExtractKeepsOtherLines ==
  ExtractLines =>
    /\ result # None /\ raised = None
    /\ Len(Val(result)) = DefinitionLines + Len(code) - LinesExtracted + 1
    /\ Val(result)[1].s
         = DefLine(Val(Field("new_method_name")), <<Arg(Str.item_price, None)>>, <<>>)
    /\ SubSeq(Val(result), DefinitionLines + 1,
              DefinitionLines + Val(Field("start_line")) - 1)
         = SubSeq(code, 1, Val(Field("start_line")) - 1)
    /\ Val(result)[DefinitionLines + Val(Field("start_line"))].s = CallOfNewMethod
    /\ ResultFrom(DefinitionLines + Val(Field("start_line")) + 1)
         = CodeFrom(Val(Field("end_line")) + 1)
\* lines in the middle of a text were extracted: lines before and lines
\* after them are kept
C27_Witness ==
  /\ ExtractLines /\ result # None
  /\ Val(Field("start_line")) > 1
  /\ Val(Field("start_line")) < Val(Field("end_line"))
  /\ Val(Field("end_line")) < Len(code)
  /\ ResultFrom(DefinitionLines + Val(Field("start_line")) + 1) # <<>>

\* where the one class of that name stands in the source
ClassAt(name) ==
  CHOOSE i \in 1..Len(parse(code).body) : IsClassNamed(parse(code).body[i], name)
\* the tree with the method out of the source class and in the target
\* class: in the place of a lone "pass", or after the members there are
MethodPlaced(body) ==
  LET NotTheMethod(item) == item # TheMethod
  IN  [i \in 1..Len(body) |->
         IF IsClassNamed(body[i], Field("source_class"))
         THEN ClassDef(body[i].name, SelectSeq(body[i].body, NotTheMethod))
         ELSE IF IsClassNamed(body[i], Field("target_class"))
         THEN ClassDef(body[i].name,
                       IF body[i].body = <<Pass>> THEN <<TheMethod>>
                       ELSE Append(body[i].body, TheMethod))
         ELSE body[i]]

\* C28: move_method, the target class coming after the source class, makes
\* the method the only member of a target class whose body is the single
\* statement "pass": the placeholder is replaced, not kept beside the
\* method; a target class with any other body has the method appended after
\* its members.
C28_PlaceholderReplaced ==
  (MoveBetweenClasses /\ ClassAt(Field("source_class")) < ClassAt(Field("target_class")))
    => /\ result # None
       /\ Val(result) = unparse(MethodPlaced(parse(code).body))

\* preserve_semantics was called with the source and the text that
\* apply_refactoring returned for it
Compared == pc = "compared" /\ operation # None /\ result # None

\* C30: when apply_refactoring returns text for a source text that parses
\* and an operation of a supported kind, the text parses too, so that
\* preserve_semantics(source, result) is True; also when the refactoring
\* takes the only statement out of the body of a function or class, and for
\* the text that extract_method puts together.
C30_ResultParses ==
  (Compared /\ InSeq(SupportedOperations, Val(operation).type) /\ parse(code).ok)
    => /\ parse(Val(result)).ok
       /\ valid = Some(TRUE)

\* the workflow has applied the operation made from the prompt
Refactored == pc = "refactored" /\ operation # None
\* the class named S of the text has a method named Mn
IsMemberOf(lines, Mn, S) ==
  /\ parse(lines).ok
  /\ \E i \in 1..Len(parse(lines).body) :
       /\ IsClassNamed(parse(lines).body[i], Some(S))
       /\ MethodsNamed(parse(lines).body[i], Some(Mn)) # <<>>

\* C29: for the prompt "Move method 'M' from S class to T class" and a
\* source in which class S defines M and class T is declared after S,
\* parse_prompt, convert_to_operation and apply_refactoring one after the
\* other give a text in which M is a member of T and not of S.
C29_MoveMethodEndToEnd ==
  \A Mn \in Methods, S \in {W.Calculator, W.Auto}, T \in {W.B} :
    (Refactored /\ prompt = MovePhrase(Mn, S, T) /\ code = TwoClassesSource(S, Mn, T))
      => /\ result # None
         /\ IsMemberOf(Val(result), Mn, T)
         /\ ~IsMemberOf(Val(result), Mn, S)

\* the request came from the intent keywords and has nothing but its kind
BareRequest ==
  /\ via = "parse_prompt" /\ used = <<0, 0>>
  /\ request # None
  /\ Val(request) = RefactoringRequest(Val(request).operation_type)

\* C24: an operation without the parameters its kind needs, such as the
\* one converted from the request of a prompt that names a kind and nothing
\* else, is taken by convert_to_operation without error and makes
\* apply_refactoring raise, for each of the seven kinds: no text is
\* returned for it as if the refactoring had been carried out.
C24_BareOperationFails ==
  (Refactored /\ BareRequest) =>
     /\ Val(operation) = RefactoringOperation(Val(request).operation_type)
     /\ raised # None
     /\ result = None

\* what the call of caller t returns when it is the only call there is, on
\* instances just made
Alone(call) ==
  IF call.method = "parse_prompt"
  THEN [request |-> parse_prompt(call.prompt).request,
        raised |-> parse_prompt(call.prompt).raised]
  ELSE apply_refactoring(call.code, Val(call.operation), SupportedOperations)
\* what the caller gave is what the call holds
InputsAsGiven(call) ==
  IF call.method = "parse_prompt" THEN call.given = <<call.prompt>>
  ELSE call.given = <<call.code, Val(call.operation)>>

\* C21: with several callers on one processor and one engine, each with
\* its own inputs, the calls interleaved in any way and after any earlier
\* calls, those that failed too, every call of parse_prompt and of
\* apply_refactoring returns what it returns alone; the pattern table, the
\* keyword table and supported_operations are never modified, nor are the
\* prompt, the source text and the operation of a call.
C21_CallsDoNotInterfere ==
  /\ processor = Processor
  /\ supported_operations = SupportedOperations
  /\ \A t \in Callers :
       /\ calls[t].pc # "idle" => InputsAsGiven(calls[t])
       /\ calls[t].pc = "returned" => calls[t].out = Some(Alone(calls[t]))
\* a call of inline_variable has returned its text while the inliner of
\* another call, on another text, is between two statements and holds a
\* value
C21_Witness ==
  \E t, u \in Callers :
    /\ t # u
    /\ calls[t].pc = "returned" /\ calls[t].method = "apply_refactoring"
    /\ Val(calls[t].operation).type = "inline_variable"
    /\ Val(calls[t].out).result # None
    /\ calls[u].pc = "visiting" /\ calls[u].todo # <<>> /\ calls[u].code # calls[t].code
    /\ visitors[Owner(u)].value_node # None

====
